---------------------------- MODULE Spec2Model ----------------------------
(***************************************************************************)
(* Model of the move-proposal protocols of chess_ai_management:            *)
(*   - MoveProposingAgent.propose_move / SingleAgentMethod.decide_move     *)
(*   - TwoAgentDebateMethod.run_debate / _extract_uci_move                 *)
(*   - ManagerAnalystsMethod.decide_move and its helpers                   *)
(* and of the position loop of run_experiment that scores their moves.     *)
(* Python strings are sequences of one-character strings; a text that is   *)
(* only searched for whole-word tokens is a sequence of words.  Long       *)
(* literal messages of the source are abbreviated after their first words. *)
(***************************************************************************)
EXTENDS Integers, Sequences, FiniteSets, TLC

VARIABLES
    \* MoveProposingAgent / SingleAgentMethod
    a_pc, a_reply, a_result, a_requests,
    \* TwoAgentDebateMethod.run_debate
    d_pc, d_round, debate_transcript, messages_alpha, messages_beta,
    latest_alpha_statement, latest_beta_statement, final_move_uci,
    d_requests, d_failed,
    \* ManagerAnalystsMethod.decide_move
    m_pc, risk_report, strategy_report, manager_history, m_iter, m_result,
    m_requests, last_reply, last_verifier_reply, pa_feedback_json,
    \* _extract_uci_move applied to a text, and again to its own result
    x_pc, x_text, x_result, x_again,
    \* the scoring of post-move evaluations in run_experiment
    s_pc, s_white, s_evals, s_scores,
    \* run_experiment: the position loop
    r_pc, r_pos, r_k, is_white_turn_for_fen, r_results, r_evals,
    current_fen_agent_eval_scores, any_method_produced_evaluable_move,
    total_score, fens_processed_count, illegal_move_count, eval_requests,
    r_summary

agentVars == <<a_pc, a_reply, a_result, a_requests>>

debateVars == <<d_pc, d_round, debate_transcript, messages_alpha, messages_beta,
                latest_alpha_statement, latest_beta_statement, final_move_uci,
                d_requests, d_failed>>

managerVars == <<m_pc, risk_report, strategy_report, manager_history, m_iter,
                 m_result, m_requests, last_reply, last_verifier_reply,
                 pa_feedback_json>>

extractVars == <<x_pc, x_text, x_result, x_again>>

\* The variables outside the three protocols.
scoreVars == <<s_pc, s_white, s_evals, s_scores>>

runVars == <<r_pc, r_pos, r_k, is_white_turn_for_fen, r_results, r_evals,
             current_fen_agent_eval_scores, any_method_produced_evaluable_move,
             total_score, fens_processed_count, illegal_move_count, eval_requests,
             r_summary>>

auxVars == <<extractVars, scoreVars, runVars>>

vars == <<agentVars, debateVars, managerVars, auxVars>>

----------------------------------------------------------------------------
(* Bounds of the model *)

\* Longest 'move' argument string drawn for propose_move.
MaxMoveLen == 6

\* Largest centipawn value the oracle reports, in either direction.
MaxCentipawns == 15000

\* Longest forced mate the oracle reports, in moves.
MaxMate == 3

\* Number of positions of a run.
NumPositions == 2

----------------------------------------------------------------------------
(* Python values and strings *)

LowerSeq == <<"a","b","c","d","e","f","g","h","i","j","k","l","m",
              "n","o","p","q","r","s","t","u","v","w","x","y","z">>

UpperSeq == <<"A","B","C","D","E","F","G","H","I","J","K","L","M",
              "N","O","P","Q","R","S","T","U","V","W","X","Y","Z">>

LowerLetters == {LowerSeq[k] : k \in 1..26}

UpperLetters == {UpperSeq[k] : k \in 1..26}

Digits == {"0","1","2","3","4","5","6","7","8","9"}

Whitespace == {" ", "\t", "\n"}

\* str.isalpha / str.isdigit on one character
IsAlphaChar(c) == c \in LowerLetters \cup UpperLetters

IsDigitChar(c) == c \in Digits

\* str.lower on one character
LowerChar(c) ==
    IF c \in UpperLetters
    THEN LowerSeq[CHOOSE k \in 1..26 : UpperSeq[k] = c]
    ELSE c

\* str.lower
Lower(s) == [k \in 1..Len(s) |-> LowerChar(s[k])]

\* str.isalnum: non-empty and every character a letter or a digit
IsAlnum(s) == Len(s) > 0 /\ \A k \in 1..Len(s) : IsAlphaChar(s[k]) \/ IsDigitChar(s[k])

RECURSIVE LStrip(_)
LStrip(s) == IF Len(s) > 0 /\ s[1] \in Whitespace THEN LStrip(Tail(s)) ELSE s

RECURSIVE RStrip(_)
RStrip(s) ==
    IF Len(s) > 0 /\ s[Len(s)] \in Whitespace
    THEN RStrip(SubSeq(s, 1, Len(s) - 1))
    ELSE s

\* str.strip
Strip(s) == RStrip(LStrip(s))

\* needle in haystack (substring test on strings)
Contains(hay, needle) ==
    \E k \in 0..(Len(hay) - Len(needle)) :
        SubSeq(hay, k + 1, k + Len(needle)) = needle

\* A Python value as the code inspects it: None, a non-zero number, a bool,
\* or a str (s holds its characters; <<>> for the other types).
PyNone == [t |-> "none", s |-> <<>>]

PyInt == [t |-> "int", s |-> <<>>]

PyTrue == [t |-> "true", s |-> <<>>]

PyFalse == [t |-> "false", s |-> <<>>]

PyStr(s) == [t |-> "str", s |-> s]

\* isinstance(v, str) / isinstance(v, bool) / truthiness
IsStr(v) == v.t = "str"

IsBool(v) == v.t \in {"true", "false"}

Truthy(v) == v.t \in {"int", "true"} \/ (v.t = "str" /\ Len(v.s) > 0)

\* The outcome of a call: a returned str, a returned None, or an exception
\* that leaves the function.
Return(s) == [kind |-> "return", value |-> s]

ReturnNone == [kind |-> "none", value |-> <<>>]

Raise == [kind |-> "raise", value |-> <<>>]

NotYet == [kind |-> "pending", value |-> <<>>]

\* "Error: " followed by the rest of the message
ErrorColon(rest) == <<"E","r","r","o","r",":"," ">> \o rest

\* "Error during OpenAI API call: ..."
ErrorDuring(rest) == <<"E","r","r","o","r"," ","d","u","r","i","n","g"," ">> \o rest

----------------------------------------------------------------------------
(* MoveProposingAgent.propose_move and SingleAgentMethod.decide_move *)

\* run_experiment and the test scripts stop before any method is built when
\* no client could be created, so the agent always holds a client.
openai_client == TRUE

\* Characters the 'move' argument is drawn from: a letter, a digit, an
\* upper-case letter, a blank and a punctuation mark.
MoveAlphabet == {"e", "2", "Q", " ", "-"}

RECURSIVE StringsUpTo(_)
StringsUpTo(n) ==
    IF n = 0 THEN {<<>>}
    ELSE LET shorter == StringsUpTo(n - 1)
         IN  shorter \cup {Append(s, c) : s \in {x \in shorter : Len(x) = n - 1},
                                          c \in MoveAlphabet}

MoveArguments == {PyNone, PyInt, PyTrue} \cup {PyStr(s) : s \in StringsUpTo(MaxMoveLen)}

\* The replies of the language model to propose_move's single request.
AgentReplies ==
    {[kind |-> "api_error", name |-> "", args |-> "", move |-> PyNone]}
    \cup {[kind |-> "no_tool_call", name |-> "", args |-> "", move |-> PyNone]}
    \cup {[kind |-> "tool_call", name |-> "other_tool", args |-> "object", move |-> PyNone]}
    \cup {[kind |-> "tool_call", name |-> "propose_chess_move", args |-> a, move |-> PyNone]
            : a \in {"invalid_json", "non_object"}}
    \cup {[kind |-> "tool_call", name |-> "propose_chess_move", args |-> "object", move |-> m]
            : m \in MoveArguments}

\* Mutant: the length test applied to the untrimmed string.
propose_move_untrimmed(reply) ==
    IF ~openai_client THEN Return(ErrorColon(<<"c","l","i","e","n","t">>))
    ELSE IF reply.kind = "api_error" THEN Return(ErrorDuring(<<"a","p","i">>))
    ELSE IF reply.kind = "no_tool_call" THEN Return(ErrorColon(<<"n","o","c","a","l","l">>))
    ELSE IF reply.name # "propose_chess_move" THEN Return(ErrorColon(<<"t","o","o","l">>))
    ELSE IF reply.args = "invalid_json" THEN Return(ErrorColon(<<"j","s","o","n">>))
    ELSE IF reply.args = "non_object" THEN Return(ErrorDuring(<<"g","e","t">>))
    ELSE IF ~(Truthy(reply.move) /\ IsStr(reply.move)) THEN Return(ErrorColon(<<"a","r","g">>))
    ELSE IF Len(reply.move.s) \in 4..5 /\ IsAlnum(Strip(reply.move.s))
         THEN Return(Strip(reply.move.s))
         ELSE Return(ErrorColon(<<"f","m","t",":">> \o reply.move.s))

\* propose_move: the value returned for a reply.  Every exception raised
\* inside the try block (a failed request, .get on arguments that are valid
\* JSON but no object) is caught by the outer handler.
propose_move(reply) ==
    IF ~openai_client THEN Return(ErrorColon(<<"c","l","i","e","n","t">>))
    ELSE IF reply.kind = "api_error" THEN Return(ErrorDuring(<<"a","p","i">>))
    ELSE IF reply.kind = "no_tool_call" THEN Return(ErrorColon(<<"n","o","c","a","l","l">>))
    ELSE IF reply.name # "propose_chess_move" THEN Return(ErrorColon(<<"t","o","o","l">>))
    ELSE IF reply.args = "invalid_json" THEN Return(ErrorColon(<<"j","s","o","n">>))
    ELSE IF reply.args = "non_object" THEN Return(ErrorDuring(<<"g","e","t">>))
    ELSE IF ~(Truthy(reply.move) /\ IsStr(reply.move)) THEN Return(ErrorColon(<<"a","r","g">>))
    ELSE IF Len(Strip(reply.move.s)) \in 4..5 /\ IsAlnum(Strip(reply.move.s))
         THEN Return(Strip(reply.move.s))
         ELSE Return(ErrorColon(<<"f","m","t",":">> \o reply.move.s))

\* Mutant: a malformed reply or a failed request is retried once.
SingleAgentDecideMoveRetry ==
    /\ a_pc = "idle"
    /\ \E reply \in AgentReplies :
        /\ a_reply' = reply
        /\ a_result' = propose_move(reply)
        /\ a_requests' = IF Contains(propose_move(reply).value, <<"E","r","r","o","r">>)
                         THEN a_requests + 2 ELSE a_requests + 1
    /\ a_pc' = "done"
    /\ UNCHANGED <<debateVars, managerVars, auxVars>>

\* SingleAgentMethod.decide_move: one call of agent.propose_move, which
\* issues one chat.completions.create request and maps its reply.
SingleAgentDecideMove ==
    /\ a_pc = "idle"
    /\ \E reply \in AgentReplies :
        /\ a_reply' = reply
        /\ a_result' = propose_move(reply)
        /\ a_requests' = IF openai_client THEN a_requests + 1 ELSE a_requests
    /\ a_pc' = "done"
    /\ UNCHANGED <<debateVars, managerVars, auxVars>>

----------------------------------------------------------------------------
(* TwoAgentDebateMethod._extract_uci_move *)

\* Both patterns of _extract_uci_move are made of word characters only and
\* are anchored by \b on both sides, so a match is always a whole word (a
\* maximal run of word characters) of the text, and re.findall returns the
\* matching words in text order.  A text is therefore modelled as the
\* sequence of its words; None is the content of a reply without text.
Text(words) == [t |-> "text", s |-> words]

FilesAtoH == {"a","b","c","d","e","f","g","h"}

Ranks1to8 == {"1","2","3","4","5","6","7","8"}

PromotionLetters == {"q","r","b","n"}

\* r'\b([a-h][1-8][a-h][1-8][qrbn]?)\b'
StrictMove(w) ==
    /\ Len(w) \in {4, 5}
    /\ w[1] \in FilesAtoH /\ w[2] \in Ranks1to8
    /\ w[3] \in FilesAtoH /\ w[4] \in Ranks1to8
    /\ (Len(w) = 5 => w[5] \in PromotionLetters)

\* r'\b([a-zA-Z0-9]{4,5})\b' followed by the shape test of the loop
LooseMove(w) ==
    /\ Len(w) \in {4, 5}
    /\ \A k \in 1..Len(w) : IsAlphaChar(w[k]) \/ IsDigitChar(w[k])
    /\ IsAlphaChar(w[1]) /\ IsDigitChar(w[2])
    /\ IsAlphaChar(w[3]) /\ IsDigitChar(w[4])
    /\ (Len(w) = 5 => IsAlphaChar(w[5]))

MaxOf(S) == CHOOSE k \in S : \A j \in S : j <= k

MinOf(S) == CHOOSE k \in S : \A j \in S : k <= j

\* Mutant: the first match wins instead of the last.
extract_uci_move_first(text) ==
    IF text.t = "none" \/ text.s = <<>> THEN ReturnNone
    ELSE LET strict == {k \in 1..Len(text.s) : StrictMove(text.s[k])}
             loose  == {k \in 1..Len(text.s) : LooseMove(text.s[k])}
         IN  IF strict # {} THEN Return(text.s[MinOf(strict)])
             ELSE IF loose # {} THEN Return(text.s[MinOf(loose)])
             ELSE ReturnNone

\* Mutant: in the second tier the last 4-5 character token is returned as
\* soon as some token has the shape of a move.
extract_uci_move_last_token(text) ==
    IF text.t = "none" \/ text.s = <<>> THEN ReturnNone
    ELSE LET strict == {k \in 1..Len(text.s) : StrictMove(text.s[k])}
             loose  == {k \in 1..Len(text.s) : LooseMove(text.s[k])}
             potential == {k \in 1..Len(text.s) : Len(text.s[k]) \in {4, 5} /\ IsAlnum(text.s[k])}
         IN  IF strict # {} THEN Return(text.s[MaxOf(strict)])
             ELSE IF loose # {} THEN Return(text.s[MaxOf(potential)])
             ELSE ReturnNone

\* _extract_uci_move: the last strict match, else the last loosely
\* move-shaped word, else None.
extract_uci_move(text) ==
    IF text.t = "none" \/ text.s = <<>> THEN ReturnNone
    ELSE LET strict == {k \in 1..Len(text.s) : StrictMove(text.s[k])}
             loose  == {k \in 1..Len(text.s) : LooseMove(text.s[k])}
         IN  IF strict # {} THEN Return(text.s[MaxOf(strict)])
             ELSE IF loose # {} THEN Return(text.s[MaxOf(loose)])
             ELSE ReturnNone

----------------------------------------------------------------------------
(* _extract_uci_move on strings of characters *)

\* Longest text, in pieces, handed to _extract_uci_move.
MaxPieces == 3

\* \w of the patterns' \b: letters, digits and the underscore
IsWordChar(ch) == IsAlphaChar(ch) \/ IsDigitChar(ch) \/ ch = "_"

RECURSIVE WordsFrom(_, _, _)
WordsFrom(s, k, word) ==
    IF k > Len(s) THEN (IF word = <<>> THEN <<>> ELSE <<word>>)
    ELSE IF IsWordChar(s[k]) THEN WordsFrom(s, k + 1, Append(word, s[k]))
    ELSE (IF word = <<>> THEN <<>> ELSE <<word>>) \o WordsFrom(s, k + 1, <<>>)

\* The words of a string: its maximal runs of word characters, in order.
Words(s) == WordsFrom(s, 1, <<>>)

\* Pieces and separators the texts are put together from; an empty
\* separator joins two pieces into one word.
Pieces == {<<"e","2","e","4">>, <<"d","7","d","8">>, <<"Q","2","e","4">>, <<"q">>, <<"m","o","v","e">>, <<"_","x">>}

Separators == {<<>>, <<" ">>, <<"'">>}

RECURSIVE TextsOf(_)
TextsOf(n) ==
    IF n = 0 THEN {<<>>}
    ELSE IF n = 1 THEN Pieces
    ELSE {t \o sep \o piece : t \in TextsOf(n - 1), sep \in Separators, piece \in Pieces}

ExtractTexts == UNION {TextsOf(n) : n \in 0..MaxPieces}

\* A text arrives.
ReceiveText ==
    /\ x_pc = "idle"
    /\ x_text' \in ExtractTexts
    /\ x_pc' = "text"
    /\ UNCHANGED <<x_result, x_again>>
    /\ UNCHANGED <<agentVars, debateVars, managerVars, scoreVars, runVars>>

\* _extract_uci_move(text)
ExtractMove ==
    /\ x_pc = "text"
    /\ x_result' = extract_uci_move(Text(Words(x_text)))
    /\ x_pc' = "extracted"
    /\ UNCHANGED <<x_text, x_again>>
    /\ UNCHANGED <<agentVars, debateVars, managerVars, scoreVars, runVars>>

\* _extract_uci_move applied to the move it returned
ExtractAgain ==
    /\ x_pc = "extracted"
    /\ x_result.kind = "return"
    /\ x_again' = extract_uci_move(Text(Words(x_result.value)))
    /\ x_pc' = "again"
    /\ UNCHANGED <<x_text, x_result>>
    /\ UNCHANGED <<agentVars, debateVars, managerVars, scoreVars, runVars>>

----------------------------------------------------------------------------
(* run_experiment: the score of a post-move evaluation *)

MATE_VALUE_SCALE == 100000

\* A float: a finite number, or float('inf') / -float('inf').
Finite(v) == [inf |-> 0, v |-> v]

PlusInfinity == [inf |-> 1, v |-> 0]

MinusInfinity == [inf |-> -1, v |-> 0]

\* a < b on floats
ScoreLess(a, b) == a.inf < b.inf \/ (a.inf = 0 /\ b.inf = 0 /\ a.v < b.v)

Abs(v) == IF v < 0 THEN -v ELSE v

\* eval_dict: Stockfish's evaluation {"type": ..., "value": ...}, or None
EvalDict(type, value) == [type |-> type, value |-> value]

NoEvalDict == EvalDict("none", 0)

\* The evaluations the oracle can report for a position.
Evaluations ==
    {EvalDict("cp", v) : v \in {-MaxCentipawns, -30, -10, 0, 5, MaxCentipawns}}
    \cup {EvalDict("mate", v) : v \in -MaxMate..MaxMate}

\* Mutant: the mate value is read as if White were always the side to move
\* next.
MateScoreForWhiteToMove(white_moved, mate_value_for_new_player) ==
    IF mate_value_for_new_player = 0 THEN -MATE_VALUE_SCALE
    ELSE IF mate_value_for_new_player > 0 THEN MATE_VALUE_SCALE - mate_value_for_new_player
    ELSE -MATE_VALUE_SCALE + Abs(mate_value_for_new_player)

\* Mutant: the distance to mate is added to the scale instead of taken off.
MateScoreSlowerIsBetter(white_moved, mate_value_for_new_player) ==
    IF white_moved
    THEN IF mate_value_for_new_player = 0 THEN MATE_VALUE_SCALE
         ELSE IF mate_value_for_new_player > 0 THEN -MATE_VALUE_SCALE - mate_value_for_new_player
         ELSE MATE_VALUE_SCALE + Abs(mate_value_for_new_player)
    ELSE IF mate_value_for_new_player = 0 THEN -MATE_VALUE_SCALE
         ELSE IF mate_value_for_new_player > 0 THEN MATE_VALUE_SCALE + mate_value_for_new_player
         ELSE -MATE_VALUE_SCALE - Abs(mate_value_for_new_player)

\* The score, from White's point of view, of a mate evaluation.
MateScore(white_moved, mate_value_for_new_player) ==
    IF white_moved
    THEN IF mate_value_for_new_player = 0 THEN MATE_VALUE_SCALE
         ELSE IF mate_value_for_new_player > 0 THEN -MATE_VALUE_SCALE + mate_value_for_new_player
         ELSE MATE_VALUE_SCALE - Abs(mate_value_for_new_player)
    ELSE IF mate_value_for_new_player = 0 THEN -MATE_VALUE_SCALE
         ELSE IF mate_value_for_new_player > 0 THEN MATE_VALUE_SCALE - mate_value_for_new_player
         ELSE -MATE_VALUE_SCALE + Abs(mate_value_for_new_player)

\* Mutant: the centipawn value is taken as it is, whoever moved.
CpScoreUnflipped(white_moved, cp_value_from_stockfish) == cp_value_from_stockfish

\* Mutant: after a move of White the magnitude of the value is counted
\* against White.
CpScoreAgainstWhite(white_moved, cp_value_from_stockfish) ==
    IF white_moved THEN -Abs(cp_value_from_stockfish) ELSE cp_value_from_stockfish

\* The score, from White's point of view, of a centipawn evaluation.
CpScore(white_moved, cp_value_from_stockfish) ==
    IF white_moved THEN -cp_value_from_stockfish ELSE cp_value_from_stockfish

\* score, for an eval_dict that is not None
ScoreOfEvaluation(white_moved, eval_dict) ==
    IF eval_dict.type = "mate" THEN Finite(MateScore(white_moved, eval_dict.value))
    ELSE IF eval_dict.type = "cp" THEN Finite(CpScore(white_moved, eval_dict.value))
    ELSE Finite(0)

\* The side to move of a position is read.
LoadPosition ==
    /\ s_pc = "position"
    /\ s_white' \in BOOLEAN
    /\ s_pc' = "score"
    /\ UNCHANGED <<s_evals, s_scores>>
    /\ UNCHANGED <<agentVars, debateVars, managerVars, extractVars, runVars>>

\* The evaluation after a protocol's move is scored.
ScoreEvaluation ==
    /\ s_pc = "score"
    /\ Len(s_evals) < 2
    /\ \E eval_dict \in Evaluations :
        /\ s_evals' = Append(s_evals, eval_dict)
        /\ s_scores' = Append(s_scores, ScoreOfEvaluation(s_white, eval_dict))
    /\ UNCHANGED <<s_pc, s_white>>
    /\ UNCHANGED <<agentVars, debateVars, managerVars, extractVars, runVars>>

----------------------------------------------------------------------------
(* TwoAgentDebateMethod.run_debate *)

\* num_rounds, the default of run_debate
num_rounds == 4

\* Words of the modelled texts, as character sequences.
W_I == <<"I">>

W_like == <<"l","i","k","e">>

W_c2c4 == <<"c","2","c","4">>

W_move == <<"m","o","v","e">>

W_is == <<"i","s">>

W_e2e4 == <<"e","2","e","4">>

W_d2d4 == <<"d","2","d","4">>

W_no == <<"n","o">>

W_Connection == <<"C","o","n","n","e","c","t","i","o","n">>

W_error == <<"e","r","r","o","r">>

W_key == <<"k","e","y">>

W_sk == <<"s","k">>

W_h7g5 == <<"h","7","g","5">>

W_Error == <<"E","r","r","o","r">>

W_Alpha == <<"A","l","p","h","a">>

W_Beta == <<"B","e","t","a">>

W_could == <<"c","o","u","l","d">>

W_not == <<"n","o","t">>

W_generate == <<"g","e","n","e","r","a","t","e">>

W_a == <<"a">>

W_response == <<"r","e","s","p","o","n","s","e">>

\* Statements the personas make.
SayC2C4 == Text(<<W_I, W_like, W_c2c4>>)

SayE2E4 == Text(<<W_move, W_is, W_e2e4>>)

SayD2D4 == Text(<<W_move, W_is, W_d2d4>>)

SayNoMove == Text(<<W_no, W_move>>)

\* Messages of the exceptions a failed request raises: a plain one, and one
\* that quotes an identifier which happens to be move-shaped.
ConnectionError == <<W_Connection, W_error>>

KeyError == <<W_key, W_sk, W_h7g5>>

OkReply(content) == [kind |-> "ok", content |-> content, e |-> <<>>]

FailReply(e) == [kind |-> "error", content |-> PyNone, e |-> e]

\* Replies drawn in rounds 1..num_rounds-1 and in the last round.
EarlyReplies == {FailReply(ConnectionError), OkReply(SayC2C4), OkReply(SayNoMove)}

FinalReplies ==
    {FailReply(ConnectionError), FailReply(KeyError),
     OkReply(SayE2E4), OkReply(SayD2D4), OkReply(SayNoMove), OkReply(PyNone)}

DebateReplies(i) == IF i < num_rounds THEN EarlyReplies ELSE FinalReplies

\* f"Error: Alpha could not generate a response: {e}"
ErrorStatement(speaker, e) ==
    Text(<<W_Error, speaker, W_could, W_not, W_generate, W_a, W_response>> \o e)

\* The statement a turn records: the reply's content, or the error text.
Statement(speaker, reply) ==
    IF reply.kind = "ok" THEN reply.content ELSE ErrorStatement(speaker, reply.e)

NoReview == [t |-> "absent", s |-> <<>>]

W_None == <<"N","o","n","e">>

\* '{latest_beta_statement}' inside the f-string: the statement's text, and
\* the word None for a reply without content.
Quoted(statement) == IF statement.t = "none" THEN Text(<<W_None>>) ELSE statement

\* Mutant: the other persona's statement is quoted in round 1 as well.
UserPromptReviewAlways(i, other_statement) ==
    [role |-> "user", round |-> i, content |-> Quoted(other_statement)]

\* The user prompt of a turn: the round's instruction and, after round 1,
\* the quoted statement of the other persona.
UserPrompt(i, other_statement) ==
    [role |-> "user", round |-> i,
     content |-> IF i = 1 THEN NoReview ELSE Quoted(other_statement)]

AssistantEntry(i, statement) == [role |-> "assistant", round |-> i, content |-> statement]

SystemEntry == [role |-> "system", round |-> 0, content |-> NoReview]

\* Mutant: the move is taken from Alpha's final statement first.
FinalMoveAlphaFirst(alpha_statement, beta_statement) ==
    IF extract_uci_move(alpha_statement).kind = "return"
    THEN extract_uci_move(alpha_statement)
    ELSE extract_uci_move(beta_statement)

\* Post-debate move determination.
FinalMove(alpha_statement, beta_statement) ==
    IF extract_uci_move(beta_statement).kind = "return"
    THEN extract_uci_move(beta_statement)
    ELSE extract_uci_move(alpha_statement)

\* Mutant: the statement of a failed request is not added to Alpha's
\* messages.
AlphaTurnDroppingFailedStatement ==
    /\ d_pc = "alpha"
    /\ \E reply \in DebateReplies(d_round) :
        LET statement == Statement(W_Alpha, reply)
        IN  /\ messages_alpha' =
                    IF reply.kind = "error"
                    THEN Append(messages_alpha, UserPrompt(d_round, latest_beta_statement))
                    ELSE messages_alpha \o
                            <<UserPrompt(d_round, latest_beta_statement),
                              AssistantEntry(d_round, statement)>>
            /\ latest_alpha_statement' = statement
            /\ debate_transcript' = Append(debate_transcript,
                    [round |-> d_round, speaker |-> "Alpha", text |-> statement])
            /\ d_failed' = IF reply.kind = "error"
                           THEN d_failed \cup {<<"Alpha", d_round>>} ELSE d_failed
    /\ d_requests' = Append(d_requests, <<"Alpha", d_round>>)
    /\ d_pc' = "beta"
    /\ UNCHANGED <<d_round, messages_beta, latest_beta_statement, final_move_uci>>
    /\ UNCHANGED <<agentVars, managerVars, auxVars>>

\* Alpha's turn of round d_round.
AlphaTurn ==
    /\ d_pc = "alpha"
    /\ \E reply \in DebateReplies(d_round) :
        LET statement == Statement(W_Alpha, reply)
        IN  /\ messages_alpha' = messages_alpha \o
                    <<UserPrompt(d_round, latest_beta_statement),
                      AssistantEntry(d_round, statement)>>
            /\ latest_alpha_statement' = statement
            /\ debate_transcript' = Append(debate_transcript,
                    [round |-> d_round, speaker |-> "Alpha", text |-> statement])
            /\ d_failed' = IF reply.kind = "error"
                           THEN d_failed \cup {<<"Alpha", d_round>>} ELSE d_failed
    /\ d_requests' = Append(d_requests, <<"Alpha", d_round>>)
    /\ d_pc' = "beta"
    /\ UNCHANGED <<d_round, messages_beta, latest_beta_statement, final_move_uci>>
    /\ UNCHANGED <<agentVars, managerVars, auxVars>>

\* Mutant: a failed request in the last round ends the debate at once.
BetaTurnAbortOnError ==
    /\ d_pc = "beta"
    /\ \E reply \in DebateReplies(d_round) :
        LET statement == Statement(W_Beta, reply)
        IN  /\ messages_beta' = messages_beta \o
                    <<UserPrompt(d_round, latest_alpha_statement),
                      AssistantEntry(d_round, statement)>>
            /\ latest_beta_statement' = statement
            /\ debate_transcript' =
                    IF reply.kind = "error" /\ d_round = num_rounds
                    THEN debate_transcript
                    ELSE Append(debate_transcript,
                            [round |-> d_round, speaker |-> "Beta", text |-> statement])
            /\ d_failed' = IF reply.kind = "error"
                           THEN d_failed \cup {<<"Beta", d_round>>} ELSE d_failed
            /\ IF d_round < num_rounds
               THEN /\ d_round' = d_round + 1
                    /\ d_pc' = "alpha"
                    /\ UNCHANGED final_move_uci
               ELSE /\ d_pc' = "done"
                    /\ final_move_uci' = FinalMove(latest_alpha_statement, statement)
                    /\ UNCHANGED d_round
    /\ d_requests' = Append(d_requests, <<"Beta", d_round>>)
    /\ UNCHANGED <<messages_alpha, latest_alpha_statement>>
    /\ UNCHANGED <<agentVars, managerVars, auxVars>>

\* Beta's turn of round d_round; after the last round the final move is
\* determined and run_debate returns.
BetaTurn ==
    /\ d_pc = "beta"
    /\ \E reply \in DebateReplies(d_round) :
        LET statement == Statement(W_Beta, reply)
        IN  /\ messages_beta' = messages_beta \o
                    <<UserPrompt(d_round, latest_alpha_statement),
                      AssistantEntry(d_round, statement)>>
            /\ latest_beta_statement' = statement
            /\ debate_transcript' = Append(debate_transcript,
                    [round |-> d_round, speaker |-> "Beta", text |-> statement])
            /\ d_failed' = IF reply.kind = "error"
                           THEN d_failed \cup {<<"Beta", d_round>>} ELSE d_failed
            /\ IF d_round < num_rounds
               THEN /\ d_round' = d_round + 1
                    /\ d_pc' = "alpha"
                    /\ UNCHANGED final_move_uci
               ELSE /\ d_pc' = "done"
                    /\ final_move_uci' = FinalMove(latest_alpha_statement, statement)
                    /\ UNCHANGED d_round
    /\ d_requests' = Append(d_requests, <<"Beta", d_round>>)
    /\ UNCHANGED <<messages_alpha, latest_alpha_statement>>
    /\ UNCHANGED <<agentVars, managerVars, auxVars>>

----------------------------------------------------------------------------
(* ManagerAnalystsMethod: values *)

CHECK_LEGALITY_TOOL_NAME == "consult_positional_analyst_for_legality"

SUBMIT_FINAL_MOVE_TOOL_NAME == "submit_final_approved_move"

MAX_ITERATIONS == 5

\* A key that a dict does not hold (dict.get then yields its default).
PyAbsent == [t |-> "absent", s |-> <<>>]

\* Moves the manager names in its tool calls.
E2E4 == <<"e","2","e","4">>

E7E8Q == <<"e","7","e","8","Q">>

\* A move in algebraic notation, which is no UCI string.
NF3 == <<"N","f","3">>

ManagerMoves == {E2E4, E7E8Q, NF3}

\* "Error: Initial analyst reports failed."
InitialReportsFailed == ErrorColon(<<"I","n","i","t","i","a","l">>)

\* "Error: Manager failed to submit a final move after iterations."
ManagerExhausted == ErrorColon(<<"M","a","n","a","g","e","r">>)

\* Lower-cases the promotion letter of a 5-character move:
\* if len(m) == 5 and m[4] in "QRNB": m = m[:4] + m[4].lower()
NormalizePromotionNever(m) == m

NormalizePromotion(m) ==
    IF Len(m) = 5 /\ m[5] \in {"Q", "R", "N", "B"}
    THEN SubSeq(m, 1, 4) \o <<LowerChar(m[5])>>
    ELSE m

----------------------------------------------------------------------------
(* ManagerAnalystsMethod._get_llm_text_response *)

\* Replies to an advisory request: a failure, a plain report, a report whose
\* text happens to contain "Error:", and a reply without content.
AdvisoryFail == [kind |-> "error", content |-> PyNone]

AdvisoryReplies ==
    {AdvisoryFail,
     [kind |-> "ok", content |-> PyStr(<<"s","a","f","e">>)],
     [kind |-> "ok", content |-> PyStr(<<"a","n"," ","E","r","r","o","r",":"," ","x">>)],
     [kind |-> "ok", content |-> PyNone]}

\* Mutant: a failed call yields an empty report.
get_llm_text_response_swallow(reply) ==
    IF reply.kind = "error" THEN PyStr(<<>>) ELSE reply.content

\* The report: the reply's content, or "Error: LLM call failed - {e}".
get_llm_text_response(reply) ==
    IF reply.kind = "error"
    THEN PyStr(ErrorColon(<<"L","L","M"," ","c","a","l","l"," ","f","a","i","l","e","d">>))
    ELSE reply.content

\* if "Error:" in risk_report or "Error:" in strategy_report: the test of a
\* report that is None raises TypeError; "or" does not evaluate its second
\* operand when the first is true.
ReportsGate(risk, strategy) ==
    IF ~IsStr(risk) THEN "raise"
    ELSE IF Contains(risk.s, <<"E","r","r","o","r",":">>) THEN "abort"
    ELSE IF ~IsStr(strategy) THEN "raise"
    ELSE IF Contains(strategy.s, <<"E","r","r","o","r",":">>) THEN "abort"
    ELSE "proceed"

----------------------------------------------------------------------------
(* ManagerAnalystsMethod._call_positional_analyst_llm_service *)

Judgment(l, m, r) == [is_legal |-> l, checked_move_uci |-> m, reason |-> r]

NoJudgment == Judgment(PyAbsent, PyAbsent, PyAbsent)

NotJsonReason == <<"n","o","t"," ","v","a","l","i","d"," ","J","S","O","N">>

CallFailedReason == <<"L","L","M"," ","c","a","l","l"," ","f","a","i","l","e","d">>

CorrectedSuffix == <<" ","(","C","o","r","r","e","c","t","e","d",")">>

InvalidMoveReason == <<"I","n","v","a","l","i","d"," ","m","o","v","e","_","u","c","i">>

VerifierReply(kind, raw, l, m, r) ==
    [kind |-> kind, raw |-> raw, is_legal |-> l, checked_move_uci |-> m, reason |-> r]

NoVerifierReply == VerifierReply("none", "", PyAbsent, PyAbsent, PyAbsent)

VerifierObject(l, m, r) == VerifierReply("content", "object", l, m, r)

\* Replies of the positional analyst drawn inside the manager's loop: a
\* failed request, text that is no JSON, and JSON objects that follow or
\* break the three-field schema.
VerifierReplies ==
    {VerifierReply("api_error", "", PyAbsent, PyAbsent, PyAbsent),
     VerifierReply("content", "invalid_json", PyAbsent, PyAbsent, PyAbsent),
     VerifierObject(PyTrue, PyStr(E7E8Q), PyStr(<<"l","e","g","a","l">>)),
     VerifierObject(PyFalse, PyStr(E2E4), PyStr(<<"i","l","l","e","g","a","l">>)),
     VerifierObject(PyTrue, PyAbsent, PyAbsent),
     VerifierObject(PyStr(<<"y","e","s">>), PyAbsent, PyStr(<<"l","e","g","a","l">>))}

\* Every shape of reply, for the analyst service on its own: no content,
\* JSON that is no object, and objects whose three fields are each absent,
\* null, or of a right or wrong type.
AllVerifierReplies ==
    {VerifierReply("api_error", "", PyAbsent, PyAbsent, PyAbsent),
     VerifierReply("content", "none", PyAbsent, PyAbsent, PyAbsent),
     VerifierReply("content", "invalid_json", PyAbsent, PyAbsent, PyAbsent),
     VerifierReply("content", "non_object", PyAbsent, PyAbsent, PyAbsent)}
    \cup {VerifierObject(l, m, r) :
            l \in {PyAbsent, PyNone, PyTrue, PyFalse, PyInt, PyStr(<<"y","e","s">>)},
            m \in {PyAbsent, PyNone, PyInt, PyStr(E2E4), PyStr(E7E8Q)},
            r \in {PyAbsent, PyNone, PyInt, PyStr(<<"l","e","g","a","l">>)}}

\* The except branches' judgments.
FailedJudgment(move_to_check, reason) == Judgment(PyFalse, PyStr(move_to_check), PyStr(reason))

\* Mutant: a reply whose is_legal is not a boolean is passed on unchanged.
call_positional_analyst_unvalidated(move_to_check, reply) ==
    IF reply.kind = "api_error" THEN FailedJudgment(move_to_check, CallFailedReason)
    ELSE IF reply.raw = "invalid_json" THEN FailedJudgment(move_to_check, NotJsonReason)
    ELSE IF reply.raw # "object" THEN FailedJudgment(move_to_check, CallFailedReason)
    ELSE Judgment(reply.is_legal, reply.checked_move_uci, reply.reason)

\* The judgment returned for a reply.  json.loads(None) raises TypeError and
\* .get on JSON that is no object raises AttributeError; both, like a failed
\* request and like str + non-str for the reason, end in "except Exception".
call_positional_analyst_llm_service(move_to_check, reply) ==
    IF reply.kind = "api_error" THEN FailedJudgment(move_to_check, CallFailedReason)
    ELSE IF reply.raw = "invalid_json" THEN FailedJudgment(move_to_check, NotJsonReason)
    ELSE IF reply.raw # "object" THEN FailedJudgment(move_to_check, CallFailedReason)
    ELSE IF ~IsBool(reply.is_legal) /\ ~(IsStr(reply.reason) \/ reply.reason = PyAbsent)
         THEN FailedJudgment(move_to_check, CallFailedReason)
    ELSE LET legal  == IF IsBool(reply.is_legal) THEN reply.is_legal ELSE PyFalse
             reason == IF IsBool(reply.is_legal) THEN reply.reason
                       ELSE PyStr((IF reply.reason = PyAbsent THEN <<>> ELSE reply.reason.s)
                                  \o CorrectedSuffix)
             checked_uci == IF reply.checked_move_uci = PyAbsent
                            THEN PyStr(move_to_check) ELSE reply.checked_move_uci
             checked == IF IsStr(checked_uci) /\ Len(checked_uci.s) = 5
                           /\ checked_uci.s[5] \in {"Q", "R", "N", "B"}
                        THEN PyStr(NormalizePromotion(checked_uci.s))
                        ELSE reply.checked_move_uci
         IN  Judgment(legal, checked, reason)

----------------------------------------------------------------------------
(* ManagerAnalystsMethod.decide_move *)

\* An entry of manager_history.  Contents are kept by their kind; a tool
\* result that carries a judgment keeps the judgment's is_legal.
Entry(role, what, tool_calls, tool_call_id, is_legal) ==
    [role |-> role, what |-> what, tool_calls |-> tool_calls,
     tool_call_id |-> tool_call_id, is_legal |-> is_legal]

SystemPrompt == Entry("system", "system_prompt", <<>>, 0, PyAbsent)

InitialPrompt == Entry("user", "initial_prompt", <<>>, 0, PyAbsent)

ApiErrorNotice == Entry("user", "api_error_notice", <<>>, 0, PyAbsent)

Reminder == Entry("user", "reminder", <<>>, 0, PyAbsent)

AssistantMessage(tool_calls) == Entry("assistant", "response_message", tool_calls, 0, PyAbsent)

ToolError(id, what) == Entry("tool", what, <<>>, id, PyAbsent)

\* json.dumps(pa_feedback_json) as the content of the tool result
ToolJudgment(id, judgment) == Entry("tool", "judgment", <<>>, id, judgment.is_legal)

\* A reply of the manager model: a failed request, plain text, or a message
\* with 1 + extra_calls tool calls of which the first has this name and
\* these arguments (text that is no JSON, JSON that is no object, or an
\* object with this move_uci).
ManagerReply(kind, name, args, move_uci, extra_calls) ==
    [kind |-> kind, name |-> name, args |-> args, move_uci |-> move_uci,
     extra_calls |-> extra_calls]

NoReply == ManagerReply("none", "", "", PyAbsent, 0)

MoveUciArguments == {PyAbsent, PyInt, PyStr(<<>>)} \cup {PyStr(m) : m \in ManagerMoves}

ManagerReplies ==
    {ManagerReply("api_error", "", "", PyAbsent, 0),
     ManagerReply("text", "", "", PyAbsent, 0)}
    \cup {ManagerReply("tool_call", n, a, PyAbsent, 0) :
            n \in {CHECK_LEGALITY_TOOL_NAME, SUBMIT_FINAL_MOVE_TOOL_NAME, "other_tool"},
            a \in {"invalid_json", "non_object"}}
    \cup {ManagerReply("tool_call", n, "object", m, 0) :
            n \in {CHECK_LEGALITY_TOOL_NAME, SUBMIT_FINAL_MOVE_TOOL_NAME},
            m \in MoveUciArguments}
    \cup {ManagerReply("tool_call", "other_tool", "object", PyAbsent, x) : x \in {0, 1}}

\* not move or not isinstance(move, str)
InvalidMoveUci(v) == ~Truthy(v) \/ ~IsStr(v)

\* The verifier is asked only for a check_legality call with a usable move.
AsksVerifier(reply) ==
    /\ reply.kind = "tool_call" /\ reply.args = "object"
    /\ reply.name = CHECK_LEGALITY_TOOL_NAME
    /\ ~InvalidMoveUci(reply.move_uci)

\* The ids of the tool calls of iteration k (0-based), the first one first.
ToolCallIds(k, reply) == [j \in 1..(1 + reply.extra_calls) |-> 2 * k + j]

\* What one iteration does: the entries appended after the assistant
\* message, how the iteration ends, the value returned, the number of
\* verifier requests and the judgment produced.
StepResult(append, outcome, value, verifier, feedback) ==
    [append |-> append, outcome |-> outcome, value |-> value,
     verifier |-> verifier, feedback |-> feedback]

\* str(move_to_check or "")
StrOrEmpty(v) == IF v.t = "int" THEN PyStr(<<"4", "2">>) ELSE PyStr(<<>>)

\* Mutant: a legal judgment ends the protocol with the checked move.
OnCheckLegalityAccepting(reply, verifier_reply, id) ==
    IF InvalidMoveUci(reply.move_uci)
    THEN LET feedback == Judgment(PyFalse, StrOrEmpty(reply.move_uci), PyStr(InvalidMoveReason))
         IN  StepResult(<<ToolJudgment(id, feedback)>>, "continue", <<>>, 0, feedback)
    ELSE LET feedback == call_positional_analyst_llm_service(reply.move_uci.s, verifier_reply)
         IN  IF feedback.is_legal = PyTrue
             THEN StepResult(<<ToolJudgment(id, feedback)>>, "return", reply.move_uci.s, 1, feedback)
             ELSE StepResult(<<ToolJudgment(id, feedback)>>, "continue", <<>>, 1, feedback)

\* tool_name == CHECK_LEGALITY_TOOL_NAME
OnCheckLegality(reply, verifier_reply, id) ==
    IF InvalidMoveUci(reply.move_uci)
    THEN LET feedback == Judgment(PyFalse, StrOrEmpty(reply.move_uci), PyStr(InvalidMoveReason))
         IN  StepResult(<<ToolJudgment(id, feedback)>>, "continue", <<>>, 0, feedback)
    ELSE LET feedback == call_positional_analyst_llm_service(reply.move_uci.s, verifier_reply)
         IN  StepResult(<<ToolJudgment(id, feedback)>>, "continue", <<>>, 1, feedback)

\* Mutant: any truthy move_uci is returned, without the str test.
OnSubmitFinalUnchecked(reply, id) ==
    IF ~Truthy(reply.move_uci)
    THEN StepResult(<<ToolError(id, "submit_error")>>, "continue", <<>>, 0, NoJudgment)
    ELSE StepResult(<<>>, "return", NormalizePromotion(reply.move_uci.s), 0, NoJudgment)

\* tool_name == SUBMIT_FINAL_MOVE_TOOL_NAME
OnSubmitFinal(reply, id) ==
    IF InvalidMoveUci(reply.move_uci)
    THEN StepResult(<<ToolError(id, "submit_error")>>, "continue", <<>>, 0, NoJudgment)
    ELSE StepResult(<<>>, "return", NormalizePromotion(reply.move_uci.s), 0, NoJudgment)

\* Mutant: only a reply with a tool call consumes an iteration.
IterationsUsedByToolCalls(reply) == IF reply.kind = "text" THEN 0 ELSE 1

\* Mutant: a failed manager request does not consume an iteration.
IterationsUsedFreeRetry(reply) == IF reply.kind = "api_error" THEN 0 ELSE 1

\* Every pass through the body of the for loop uses one iteration.
IterationsUsed(reply) == 1

\* The body of the loop after the manager request, for iteration k.
ManagerStep(k, reply, verifier_reply) ==
    LET ids == ToolCallIds(k, reply)
        assistant == <<AssistantMessage(ids)>>
        with(r) == [r EXCEPT !.append = assistant \o r.append]
    IN  IF reply.kind = "api_error"
        THEN StepResult(<<ApiErrorNotice>>, "continue", <<>>, 0, NoJudgment)
        ELSE IF reply.kind = "text"
        THEN StepResult(<<AssistantMessage(<<>>), Reminder>>, "continue", <<>>, 0, NoJudgment)
        ELSE IF reply.args = "invalid_json"
        THEN with(StepResult(<<ToolError(ids[1], "args_error")>>, "continue", <<>>, 0, NoJudgment))
        ELSE IF reply.name = CHECK_LEGALITY_TOOL_NAME
        THEN IF reply.args = "non_object"
             THEN with(StepResult(<<>>, "raise", <<>>, 0, NoJudgment))
             ELSE with(OnCheckLegality(reply, verifier_reply, ids[1]))
        ELSE IF reply.name = SUBMIT_FINAL_MOVE_TOOL_NAME
        THEN IF reply.args = "non_object"
             THEN with(StepResult(<<>>, "raise", <<>>, 0, NoJudgment))
             ELSE with(OnSubmitFinal(reply, ids[1]))
        ELSE with(StepResult(<<ToolError(ids[1], "unknown_tool")>>, "continue", <<>>, 0, NoJudgment))

\* Step 1a: the Risk Analyst's report.
RiskAnalystCall ==
    /\ m_pc = "risk"
    /\ \E reply \in AdvisoryReplies : risk_report' = get_llm_text_response(reply)
    /\ m_requests' = [m_requests EXCEPT !.advisory = @ + 1]
    /\ m_pc' = "strategy"
    /\ UNCHANGED <<strategy_report, manager_history, m_iter, m_result, last_reply,
                   last_verifier_reply, pa_feedback_json>>
    /\ UNCHANGED <<agentVars, debateVars, auxVars>>

\* Step 1b: the Strategy Analyst's report, the test of both reports and the
\* first two entries of the manager's history.
StrategyAnalystCall ==
    /\ m_pc = "strategy"
    /\ \E reply \in AdvisoryReplies :
        LET report == get_llm_text_response(reply)
            gate == ReportsGate(risk_report, report)
        IN  /\ strategy_report' = report
            /\ m_pc' = IF gate = "proceed" THEN "loop" ELSE "done"
            /\ m_result' = IF gate = "proceed" THEN m_result
                           ELSE IF gate = "abort" THEN Return(InitialReportsFailed)
                           ELSE Raise
            /\ manager_history' = IF gate = "proceed"
                                  THEN <<SystemPrompt, InitialPrompt>>
                                  ELSE manager_history
    /\ m_requests' = [m_requests EXCEPT !.advisory = @ + 1]
    /\ UNCHANGED <<risk_report, m_iter, last_reply, last_verifier_reply, pa_feedback_json>>
    /\ UNCHANGED <<agentVars, debateVars, auxVars>>

\* Mutant: a long history is cut down to the two prompts and its last six
\* entries before the next request.
ManagerIterationTrimmingHistory ==
    /\ m_pc = "loop"
    /\ m_iter < MAX_ITERATIONS
    /\ \E reply \in ManagerReplies :
       \E verifier_reply \in (IF AsksVerifier(reply) THEN VerifierReplies ELSE {NoVerifierReply}) :
        LET step == ManagerStep(m_iter, reply, verifier_reply)
            used == m_iter + IterationsUsed(reply)
        IN  /\ last_reply' = reply
            /\ last_verifier_reply' = verifier_reply
            /\ pa_feedback_json' = step.feedback
            /\ manager_history' =
                    LET h == manager_history \o step.append
                    IN  IF Len(h) > 8
                        THEN <<h[1], h[2]>> \o SubSeq(h, Len(h) - 5, Len(h))
                        ELSE h
            /\ m_requests' = [m_requests EXCEPT !.manager = @ + 1,
                                                !.verifier = @ + step.verifier]
            /\ m_iter' = IF step.outcome = "continue" THEN used ELSE m_iter
            /\ IF step.outcome = "return"
               THEN m_result' = Return(step.value) /\ m_pc' = "done"
               ELSE IF step.outcome = "raise"
               THEN m_result' = Raise /\ m_pc' = "done"
               ELSE IF used >= MAX_ITERATIONS
               THEN m_result' = Return(ManagerExhausted) /\ m_pc' = "done"
               ELSE m_result' = m_result /\ m_pc' = "loop"
    /\ UNCHANGED <<risk_report, strategy_report>>
    /\ UNCHANGED <<agentVars, debateVars, auxVars>>

\* Step 2: one iteration of the manager's decision loop; the loop's end
\* after MAX_ITERATIONS iterations belongs to the last iteration.
ManagerIteration ==
    /\ m_pc = "loop"
    /\ m_iter < MAX_ITERATIONS
    /\ \E reply \in ManagerReplies :
       \E verifier_reply \in (IF AsksVerifier(reply) THEN VerifierReplies ELSE {NoVerifierReply}) :
        LET step == ManagerStep(m_iter, reply, verifier_reply)
            used == m_iter + IterationsUsed(reply)
        IN  /\ last_reply' = reply
            /\ last_verifier_reply' = verifier_reply
            /\ pa_feedback_json' = step.feedback
            /\ manager_history' = manager_history \o step.append
            /\ m_requests' = [m_requests EXCEPT !.manager = @ + 1,
                                                !.verifier = @ + step.verifier]
            /\ m_iter' = IF step.outcome = "continue" THEN used ELSE m_iter
            /\ IF step.outcome = "return"
               THEN m_result' = Return(step.value) /\ m_pc' = "done"
               ELSE IF step.outcome = "raise"
               THEN m_result' = Raise /\ m_pc' = "done"
               ELSE IF used >= MAX_ITERATIONS
               THEN m_result' = Return(ManagerExhausted) /\ m_pc' = "done"
               ELSE m_result' = m_result /\ m_pc' = "loop"
    /\ UNCHANGED <<risk_report, strategy_report>>
    /\ UNCHANGED <<agentVars, debateVars, auxVars>>

----------------------------------------------------------------------------
(* run_experiment: the position loop *)

\* methods_to_test, in order: SingleAgent, TwoAgentDebate, ManagerAnalysts
Methods == 1..3

\* What a protocol hands back for a position: the single agent a move or
\* one of its error strings, the debate a move or None, the manager a move
\* or one of its error strings, or an exception.
ProtocolResults(k) ==
    IF k = 1 THEN {Return(E2E4), Return(ErrorColon(<<"L","L","M">>)), Return(ErrorDuring(<<"O","p","e","n","A","I">>))}
    ELSE IF k = 2 THEN {Return(W_e2e4), ReturnNone}
    ELSE {Return(E2E4), Return(InitialReportsFailed), Return(ManagerExhausted), Raise}

\* What the chess library and the engine answer for a move that parses:
\* whether it is legal, and the evaluation of the position after it (None
\* when the engine fails).
OracleOutcome(legal, eval_dict) == [legal |-> legal, eval_dict |-> eval_dict]

OracleOutcomes ==
    {OracleOutcome(FALSE, NoEvalDict), OracleOutcome(TRUE, NoEvalDict)}
    \cup {OracleOutcome(TRUE, EvalDict("cp", v)) : v \in {-30, -10, 5}}
    \cup {OracleOutcome(TRUE, EvalDict("mate", v)) : v \in {0, 1}}

\* chess.Move.from_uci accepts two squares and an optional piece letter.
ParsesAsUci(move_uci) ==
    /\ Len(move_uci) \in {4, 5}
    /\ move_uci[1] \in FilesAtoH /\ move_uci[2] \in Ranks1to8
    /\ move_uci[3] \in FilesAtoH /\ move_uci[4] \in Ranks1to8
    /\ (Len(move_uci) = 5 => move_uci[5] \in {"p", "n", "b", "r", "q", "k"})

\* Evaluator.get_evaluation_dict_after_move: None for a move that does not
\* parse, is not legal, or cannot be evaluated.
get_evaluation_dict_after_move(move_uci, oracle) ==
    IF ~ParsesAsUci(move_uci) THEN NoEvalDict
    ELSE IF ~oracle.legal THEN NoEvalDict
    ELSE oracle.eval_dict

\* agent_move_uci and isinstance(agent_move_uci, str)
\*     and "Error:" not in agent_move_uci.lower()
IsMoveString(result) ==
    /\ result.kind = "return"
    /\ result.value # <<>>
    /\ ~Contains(Lower(result.value), <<"E","r","r","o","r",":">>)

\* Mutant: a result that cannot be evaluated scores 0.
SentinelScoreZero(white_to_move) == Finite(0)

\* -float('inf') if is_white_turn_for_fen else float('inf')
SentinelScore(white_to_move) == IF white_to_move THEN MinusInfinity ELSE PlusInfinity

Values(scores) == {scores[k] : k \in 1..Len(scores)}

\* Mutant: the largest score wins whoever is to move.
BestScoreAlwaysMax(white_to_move, scores) ==
    CHOOSE b \in Values(scores) : \A t \in Values(scores) : ~ScoreLess(b, t)

\* max(...) if is_white_turn_for_fen else min(...)
BestScore(white_to_move, scores) ==
    IF white_to_move
    THEN CHOOSE b \in Values(scores) : \A t \in Values(scores) : ~ScoreLess(b, t)
    ELSE CHOOSE b \in Values(scores) : \A t \in Values(scores) : ~ScoreLess(t, b)

\* abs(eval_score - best_eval_score_for_this_fen) < 1e-9, on scores that
\* are whole numbers; false when eval_score is infinite and best is not.
AchievesBest(eval_score, best) == eval_score.inf = 0 /\ best.inf = 0 /\ eval_score.v = best.v

\* The position that follows position r_pos, or the summary after the last.
NextPosition ==
    /\ r_pos' = r_pos + 1
    /\ r_pc' = IF r_pos < NumPositions THEN "position" ELSE "summary"

\* Mutant: a skipped position is counted as processed by every protocol.
SkipPositionCounted ==
    /\ NextPosition
    /\ fens_processed_count' = [k \in Methods |-> fens_processed_count[k] + 1]
    /\ UNCHANGED <<r_k, r_results, r_evals, current_fen_agent_eval_scores,
                   any_method_produced_evaluable_move, eval_requests,
                   total_score, illegal_move_count>>

\* continue, at the head of the position loop: the next position follows
\* and nothing else changes.
SkipPosition ==
    /\ NextPosition
    /\ UNCHANGED <<r_k, r_results, r_evals, current_fen_agent_eval_scores,
                   any_method_produced_evaluable_move, eval_requests,
                   total_score, fens_processed_count, illegal_move_count>>

\* The head of the position loop: the FEN is parsed and validated by the
\* engine; a position that fails either test is skipped.  An exception of
\* the engine in is_fen_valid is not caught.
PreValidate ==
    /\ r_pc = "position"
    /\ \E board \in {"ValueError", "white", "black"}, valid \in {"true", "false", "raise"} :
        IF board = "ValueError"
        THEN /\ SkipPosition
             /\ UNCHANGED is_white_turn_for_fen
        ELSE /\ is_white_turn_for_fen' = (board = "white")
             /\ IF valid = "raise"
                THEN /\ r_pc' = "aborted"
                     /\ UNCHANGED <<r_pos, r_k, r_results, r_evals,
                                    current_fen_agent_eval_scores,
                                    any_method_produced_evaluable_move, eval_requests,
                                    total_score, fens_processed_count, illegal_move_count>>
                ELSE IF valid = "false"
                THEN SkipPosition
                ELSE /\ r_pc' = "method"
                     /\ r_k' = 1
                     /\ r_results' = <<>>
                     /\ r_evals' = <<>>
                     /\ current_fen_agent_eval_scores' = <<>>
                     /\ any_method_produced_evaluable_move' = FALSE
                     /\ eval_requests' = {}
                     /\ UNCHANGED <<r_pos, total_score, fens_processed_count,
                                    illegal_move_count>>
    /\ UNCHANGED r_summary
    /\ UNCHANGED <<agentVars, debateVars, managerVars, extractVars, scoreVars>>

\* Mutant: the results of the three protocols are collected first, and the
\* evaluations are requested together after the third.
RunMethodCollectFirst ==
    /\ r_pc = "method"
    /\ \E agent_move_uci \in ProtocolResults(r_k), oracle \in OracleOutcomes :
        LET requested == IsMoveString(agent_move_uci)
            eval_dict == IF requested
                         THEN get_evaluation_dict_after_move(agent_move_uci.value, oracle)
                         ELSE NoEvalDict
            score == IF eval_dict # NoEvalDict
                     THEN ScoreOfEvaluation(is_white_turn_for_fen, eval_dict)
                     ELSE SentinelScore(is_white_turn_for_fen)
        IN  /\ r_results' = Append(r_results, agent_move_uci)
            /\ r_evals' = Append(r_evals, eval_dict)
            /\ current_fen_agent_eval_scores' = Append(current_fen_agent_eval_scores, score)
            /\ any_method_produced_evaluable_move' =
                    (any_method_produced_evaluable_move \/ eval_dict # NoEvalDict)
            /\ eval_requests' = IF r_k = 3
                                THEN {k \in Methods : IsMoveString(r_results'[k])}
                                ELSE eval_requests
            /\ fens_processed_count' =
                    IF agent_move_uci.kind = "raise" THEN fens_processed_count
                    ELSE [fens_processed_count EXCEPT ![r_k] = fens_processed_count[r_k] + 1]
    /\ IF r_k < 3 THEN r_k' = r_k + 1 /\ r_pc' = "method"
                  ELSE r_k' = r_k /\ r_pc' = "award"
    /\ UNCHANGED <<r_pos, is_white_turn_for_fen, total_score, illegal_move_count,
                   r_summary>>
    /\ UNCHANGED <<agentVars, debateVars, managerVars, extractVars, scoreVars>>

\* One protocol is run on the position and its result is scored.
RunMethod ==
    /\ r_pc = "method"
    /\ \E agent_move_uci \in ProtocolResults(r_k), oracle \in OracleOutcomes :
        LET requested == IsMoveString(agent_move_uci)
            eval_dict == IF requested
                         THEN get_evaluation_dict_after_move(agent_move_uci.value, oracle)
                         ELSE NoEvalDict
            score == IF eval_dict # NoEvalDict
                     THEN ScoreOfEvaluation(is_white_turn_for_fen, eval_dict)
                     ELSE SentinelScore(is_white_turn_for_fen)
        IN  /\ r_results' = Append(r_results, agent_move_uci)
            /\ r_evals' = Append(r_evals, eval_dict)
            /\ current_fen_agent_eval_scores' = Append(current_fen_agent_eval_scores, score)
            /\ any_method_produced_evaluable_move' =
                    (any_method_produced_evaluable_move \/ eval_dict # NoEvalDict)
            /\ eval_requests' = IF requested THEN eval_requests \cup {r_k} ELSE eval_requests
            /\ fens_processed_count' =
                    IF agent_move_uci.kind = "raise" THEN fens_processed_count
                    ELSE [fens_processed_count EXCEPT ![r_k] = fens_processed_count[r_k] + 1]
    /\ IF r_k < 3 THEN r_k' = r_k + 1 /\ r_pc' = "method"
                  ELSE r_k' = r_k /\ r_pc' = "award"
    /\ UNCHANGED <<r_pos, is_white_turn_for_fen, total_score, illegal_move_count,
                   r_summary>>
    /\ UNCHANGED <<agentVars, debateVars, managerVars, extractVars, scoreVars>>

\* The points of the position are awarded.
AwardPoints ==
    /\ r_pc = "award"
    /\ LET best == BestScore(is_white_turn_for_fen, current_fen_agent_eval_scores)
       IN  total_score' =
             IF any_method_produced_evaluable_move /\ best.inf = 0
             THEN [k \in Methods |->
                     IF AchievesBest(current_fen_agent_eval_scores[k], best)
                     THEN total_score[k] + 1 ELSE total_score[k]]
             ELSE total_score
    /\ NextPosition
    /\ UNCHANGED <<r_k, is_white_turn_for_fen, r_results, r_evals,
                   current_fen_agent_eval_scores, any_method_produced_evaluable_move,
                   fens_processed_count, illegal_move_count, eval_requests, r_summary>>
    /\ UNCHANGED <<agentVars, debateVars, managerVars, extractVars, scoreVars>>

\* The results are aggregated, printed and written to the results file.
Summarise ==
    /\ r_pc = "summary"
    /\ r_summary' = TRUE
    /\ r_pc' = "done"
    /\ UNCHANGED <<r_pos, r_k, is_white_turn_for_fen, r_results, r_evals,
                   current_fen_agent_eval_scores, any_method_produced_evaluable_move,
                   total_score, fens_processed_count, illegal_move_count, eval_requests>>
    /\ UNCHANGED <<agentVars, debateVars, managerVars, extractVars, scoreVars>>

----------------------------------------------------------------------------
(* Specifications *)

\* One call of _call_positional_analyst_llm_service on its own.
PositionalAnalystCall ==
    /\ m_pc = "analyst"
    /\ \E move_to_check \in ManagerMoves, reply \in AllVerifierReplies :
        /\ last_reply' = ManagerReply("tool_call", CHECK_LEGALITY_TOOL_NAME, "object",
                                      PyStr(move_to_check), 0)
        /\ last_verifier_reply' = reply
        /\ pa_feedback_json' = call_positional_analyst_llm_service(move_to_check, reply)
    /\ m_requests' = [m_requests EXCEPT !.verifier = @ + 1]
    /\ m_pc' = "done"
    /\ UNCHANGED <<risk_report, strategy_report, manager_history, m_iter, m_result>>
    /\ UNCHANGED <<agentVars, debateVars, auxVars>>

\* The state before a call; each protocol is either about to run or off.
Start(agent_pc, debate_pc, manager_pc, extract_pc, score_pc, run_pc) ==
    /\ a_pc = agent_pc
    /\ a_reply = [kind |-> "none", name |-> "", args |-> "", move |-> PyNone]
    /\ a_result = NotYet
    /\ a_requests = 0
    /\ d_pc = debate_pc
    /\ d_round = 1
    /\ debate_transcript = <<>>
    /\ messages_alpha = <<SystemEntry>>
    /\ messages_beta = <<SystemEntry>>
    /\ latest_alpha_statement = Text(<<>>)
    /\ latest_beta_statement = Text(<<>>)
    /\ final_move_uci = NotYet
    /\ d_requests = <<>>
    /\ d_failed = {}
    /\ m_pc = manager_pc
    /\ risk_report = PyAbsent
    /\ strategy_report = PyAbsent
    /\ manager_history = <<>>
    /\ m_iter = 0
    /\ m_result = NotYet
    /\ m_requests = [advisory |-> 0, manager |-> 0, verifier |-> 0, oracle |-> 0]
    /\ last_reply = NoReply
    /\ last_verifier_reply = NoVerifierReply
    /\ pa_feedback_json = NoJudgment
    /\ x_pc = extract_pc
    /\ x_text = <<>>
    /\ x_result = NotYet
    /\ x_again = NotYet
    /\ s_pc = score_pc
    /\ s_white = FALSE
    /\ s_evals = <<>>
    /\ s_scores = <<>>
    /\ r_pc = run_pc
    /\ r_pos = 1
    /\ r_k = 1
    /\ is_white_turn_for_fen = FALSE
    /\ r_results = <<>>
    /\ r_evals = <<>>
    /\ current_fen_agent_eval_scores = <<>>
    /\ any_method_produced_evaluable_move = FALSE
    /\ total_score = [k \in Methods |-> 0]
    /\ fens_processed_count = [k \in Methods |-> 0]
    /\ illegal_move_count = [k \in Methods |-> 0]
    /\ eval_requests = {}
    /\ r_summary = FALSE

InitAgent == Start("idle", "off", "off", "off", "off", "off")

InitDebate == Start("off", "alpha", "off", "off", "off", "off")

InitManager == Start("off", "off", "risk", "off", "off", "off")

InitAnalyst == Start("off", "off", "analyst", "off", "off", "off")

InitExtract == Start("off", "off", "off", "idle", "off", "off")

InitScore == Start("off", "off", "off", "off", "position", "off")

InitRun == Start("off", "off", "off", "off", "off", "position")

NextAgent == SingleAgentDecideMove

NextDebate == AlphaTurn \/ BetaTurn

NextManager == RiskAnalystCall \/ StrategyAnalystCall \/ ManagerIteration

NextAnalyst == PositionalAnalystCall

NextExtract == ReceiveText \/ ExtractMove \/ ExtractAgain

NextScore == LoadPosition \/ ScoreEvaluation

NextRun == PreValidate \/ RunMethod \/ AwardPoints \/ Summarise

\* One call of SingleAgentMethod.decide_move.
SpecAgent == InitAgent /\ [][NextAgent]_vars

\* One call of TwoAgentDebateMethod.run_debate.
SpecDebate == InitDebate /\ [][NextDebate]_vars

\* One call of ManagerAnalystsMethod.decide_move.
SpecManager == InitManager /\ [][NextManager]_vars

\* One call of ManagerAnalystsMethod._call_positional_analyst_llm_service.
SpecAnalyst == InitAnalyst /\ [][NextAnalyst]_vars

\* _extract_uci_move on a text and on its own result.
SpecExtract == InitExtract /\ [][NextExtract]_vars

\* The scoring of two evaluations of one position.
SpecScore == InitScore /\ [][NextScore]_vars

\* The position loop and the summary of run_experiment.
SpecRun == InitRun /\ [][NextRun]_vars

\* One call of any one of the operations.
Init == \E p \in {"agent", "debate", "manager", "analyst", "extract", "score", "run"} :
    Start(IF p = "agent" THEN "idle" ELSE "off",
          IF p = "debate" THEN "alpha" ELSE "off",
          IF p = "manager" THEN "risk" ELSE IF p = "analyst" THEN "analyst" ELSE "off",
          IF p = "extract" THEN "idle" ELSE "off",
          IF p = "score" THEN "position" ELSE "off",
          IF p = "run" THEN "position" ELSE "off")

Next == NextAgent \/ NextDebate \/ NextManager \/ NextAnalyst \/ NextExtract \/ NextScore
            \/ NextRun

Spec == Init /\ [][Next]_vars

----------------------------------------------------------------------------
(* Properties of ManagerAnalystsMethod.decide_move (SpecManager) *)

\* The last manager reply was submit_final with parsed arguments.
SubmitFinalInvoked ==
    /\ last_reply.kind = "tool_call" /\ last_reply.args = "object"
    /\ last_reply.name = SUBMIT_FINAL_MOVE_TOOL_NAME

\* ... and its move_uci was a non-empty string.
SubmitFinalAccepted == SubmitFinalInvoked /\ IsStr(last_reply.move_uci) /\ Len(last_reply.move_uci.s) > 0

LoopEntered == Len(manager_history) > 0

RiskCallFailed == risk_report = get_llm_text_response(AdvisoryFail)

StrategyCallFailed == strategy_report = get_llm_text_response(AdvisoryFail)

\* C1: whenever decide_move ends and no manager iteration ended in an
\* accepted submit_final, exactly MAX_ITERATIONS manager requests were made,
\* the exhaustion error was returned and no oracle request was issued.
C1_NoSubmitMeansExhaustion ==
    (m_pc = "done" /\ LoopEntered /\ ~SubmitFinalAccepted) =>
        /\ m_requests.manager = MAX_ITERATIONS
        /\ m_result = Return(ManagerExhausted)
        /\ m_requests.oracle = 0

\* C2 as claimed: whenever the manager invokes submit_final, decide_move
\* returns at once with the supplied move.
C2_AnySubmitFinalReturns ==
    SubmitFinalInvoked => (m_pc = "done" /\ m_result.kind = "return")

\* C2 as amended: whenever the manager invokes submit_final with a non-empty
\* string move_uci, on any iteration and after any earlier judgments,
\* decide_move returns at once: the result is the supplied move with only
\* its promotion letter changed, a 5-character result never ends in an
\* upper-case Q/R/N/B, and that iteration's manager request was the last
\* request (one per iteration started, the loop counter not advanced).
C2_AcceptedSubmitFinalReturns ==
    SubmitFinalAccepted =>
        LET move == last_reply.move_uci.s
        IN  /\ m_pc = "done"
            /\ m_result.kind = "return"
            /\ Len(m_result.value) = Len(move)
            /\ Lower(m_result.value) = Lower(move)
            /\ \A k \in 1..Len(move) : (k # 5 \/ Len(move) # 5) => m_result.value[k] = move[k]
            /\ Len(move) = 5 => m_result.value[5] \notin {"Q", "R", "N", "B"}
            /\ m_requests.manager = m_iter + 1

\* C2 witness: an upper-case promotion is submitted after a rejected check
\* and without any accepted one.
C2_Witness ==
    /\ m_pc = "done" /\ SubmitFinalAccepted
    /\ last_reply.move_uci.s = E7E8Q
    /\ m_result = Return(<<"e","7","e","8","q">>)
    /\ \E k \in 1..Len(manager_history) : manager_history[k].is_legal = PyFalse
    /\ \A k \in 1..Len(manager_history) : manager_history[k].is_legal # PyTrue

\* C3: if the risk or the strategy advisory call failed, decide_move has
\* returned an error string and made no manager and no verifier request.
C3_AdvisoryFailureReturnsError ==
    (m_pc \notin {"risk", "strategy", "off"} /\ (RiskCallFailed \/ StrategyCallFailed)) =>
        /\ m_pc = "done"
        /\ m_result.kind = "return"
        /\ Contains(m_result.value, <<"E","r","r","o","r",":">>)
        /\ m_requests.manager = 0
        /\ m_requests.verifier = 0

\* C4: an iteration in which the manager calls check_legality with a
\* non-empty move string makes exactly one verifier request, appends the
\* assistant message and then the judgment as the result of that tool call,
\* and uses one iteration without returning a move: the protocol goes on, or
\* ends with the exhaustion error when that was the last iteration.
C4_CheckLegalityContinues ==
    [][(m_pc = "loop" /\ AsksVerifier(last_reply')) =>
        /\ m_requests'.verifier = m_requests.verifier + 1
        /\ m_requests'.manager = m_requests.manager + 1
        /\ last_verifier_reply' \in VerifierReplies
        /\ IsBool(pa_feedback_json'.is_legal)
        /\ Len(manager_history') = Len(manager_history) + 2
        /\ SubSeq(manager_history', 1, Len(manager_history)) = manager_history
        /\ LET call == manager_history'[Len(manager_history) + 1]
               result == manager_history'[Len(manager_history) + 2]
           IN  /\ call.role = "assistant"
               /\ result.role = "tool" /\ result.what = "judgment"
               /\ result.tool_call_id = call.tool_calls[1]
               /\ result.is_legal = pa_feedback_json'.is_legal
        /\ m_iter' = m_iter + 1
        /\ IF m_iter' < MAX_ITERATIONS
           THEN m_pc' = "loop" /\ m_result' = NotYet
           ELSE m_pc' = "done" /\ m_result' = Return(ManagerExhausted)
      ]_vars

\* C4 witness: a check judged legal, after which the loop is still running.
C4_Witness ==
    /\ m_pc = "loop" /\ AsksVerifier(last_reply)
    /\ pa_feedback_json.is_legal = PyTrue
    /\ m_requests.verifier = 1
    /\ manager_history[Len(manager_history)].is_legal = PyTrue

----------------------------------------------------------------------------
(* Properties of _call_positional_analyst_llm_service (SpecAnalyst) *)

\* A reply that is a JSON object with a boolean is_legal, a string
\* checked_move_uci and a string reason.
FollowsSchema(reply) ==
    /\ reply.kind = "content" /\ reply.raw = "object"
    /\ IsBool(reply.is_legal) /\ IsStr(reply.checked_move_uci) /\ IsStr(reply.reason)

\* C5: for every failed call and every reply that is no JSON or breaks the
\* three-field schema, the judgment has is_legal = false and a reason.
C5_MalformedRepliesCoerced ==
    (m_pc = "done" /\ ~FollowsSchema(last_verifier_reply)) =>
        /\ pa_feedback_json.is_legal = PyFalse
        /\ IsStr(pa_feedback_json.reason)

----------------------------------------------------------------------------
(* Properties of propose_move / SingleAgentMethod.decide_move (SpecAgent) *)

\* The reply is a call of propose_chess_move whose 'move' is a string of
\* trimmed length 4 or 5 made of letters and digits.
WellFormedProposal(reply) ==
    /\ reply.kind = "tool_call" /\ reply.name = "propose_chess_move"
    /\ reply.args = "object" /\ IsStr(reply.move)
    /\ Len(Strip(reply.move.s)) \in {4, 5}
    /\ \A k \in 1..Len(Strip(reply.move.s)) :
            IsAlphaChar(Strip(reply.move.s)[k]) \/ IsDigitChar(Strip(reply.move.s)[k])

\* An error string: it starts with "Error" and is no 4-5 character
\* alphanumeric token.
IsErrorString(v) ==
    /\ Len(v) > 5 /\ SubSeq(v, 1, 5) = <<"E","r","r","o","r">>
    /\ \E k \in 1..Len(v) : ~(IsAlphaChar(v[k]) \/ IsDigitChar(v[k]))

\* C6: propose_move never raises; it returns the trimmed move exactly when
\* the reply is a well-formed proposal, and an error string otherwise.
C6_ProposeMoveResult ==
    a_pc = "done" =>
        /\ a_result.kind = "return"
        /\ IF WellFormedProposal(a_reply)
           THEN /\ a_result.value = Strip(a_reply.move.s)
                /\ ~IsErrorString(a_result.value)
           ELSE IsErrorString(a_result.value)

\* C6 witness: a move padded with blanks is returned trimmed.
C6_Witness ==
    /\ a_pc = "done"
    /\ a_reply.move = PyStr(<<" ","e","2","Q","2"," ">>)
    /\ a_result = Return(<<"e","2","Q","2">>)

\* C7: every call issues exactly one language-model request, whatever the
\* reply.
C7_ExactlyOneRequest == a_pc = "done" => a_requests = 1

\* C7 witness: a failed request and a malformed reply, not retried.
C7_Witness ==
    /\ a_pc = "done" /\ a_requests = 1
    /\ a_reply.kind = "api_error" \/ a_reply.args = "invalid_json"
    /\ IsErrorString(a_result.value)

----------------------------------------------------------------------------
(* Properties of run_debate (SpecDebate) *)

\* The k-th turn of a debate: Alpha and Beta alternate within each round.
ExpectedTurn(k) == <<IF k % 2 = 1 THEN "Alpha" ELSE "Beta", (k + 1) \div 2>>

AlphaFinal == debate_transcript[2 * num_rounds - 1].text

BetaFinal == debate_transcript[2 * num_rounds].text

\* C8: the requests are made in the order A1, B1, ..., A4, B4, each turn
\* adds one transcript entry with that speaker and round, whether or not the
\* request failed, and run_debate ends exactly after the 8th turn.
C8_LinearPath ==
    /\ Len(d_requests) <= 2 * num_rounds
    /\ Len(debate_transcript) = Len(d_requests)
    /\ \A k \in 1..Len(d_requests) :
        /\ d_requests[k] = ExpectedTurn(k)
        /\ debate_transcript[k].speaker = ExpectedTurn(k)[1]
        /\ debate_transcript[k].round = ExpectedTurn(k)[2]
    /\ (d_pc = "done") = (Len(d_requests) = 2 * num_rounds /\ num_rounds = 4)
    /\ d_pc = "done" => final_move_uci.kind \in {"return", "none"}
    /\ d_pc \in {"alpha", "beta"} => final_move_uci = NotYet

\* C8 witness: a finished debate in which the first and the last request
\* failed.
C8_Witness ==
    /\ d_pc = "done"
    /\ {<<"Alpha", 1>>, <<"Beta", 4>>} \subseteq d_failed
    /\ Len(debate_transcript) = 8

\* C9: the final move is the one extracted from Beta's round-4 statement
\* when there is one, else the one from Alpha's round-4 statement, else
\* None; nothing of rounds 1-3 enters it.
C9_FinalMoveFromRoundFour ==
    d_pc = "done" =>
        final_move_uci =
            IF extract_uci_move(BetaFinal).kind = "return" THEN extract_uci_move(BetaFinal)
            ELSE IF extract_uci_move(AlphaFinal).kind = "return" THEN extract_uci_move(AlphaFinal)
            ELSE ReturnNone

\* C9 witness: Alpha and Beta commit to different moves and Beta's is
\* returned, after earlier rounds that named a third move.
C9_Witness ==
    /\ d_pc = "done"
    /\ AlphaFinal = SayE2E4 /\ BetaFinal = SayD2D4
    /\ debate_transcript[6].text = SayC2C4
    /\ final_move_uci = Return(W_d2d4)

\* C10: no move is taken from the error text of a failed turn: if Beta's
\* round-4 request failed the final move comes from Alpha's round-4
\* statement alone, and if both failed there is no move.
C10_NoMoveFromErrorText ==
    (d_pc = "done" /\ <<"Beta", num_rounds>> \in d_failed) =>
        final_move_uci =
            IF <<"Alpha", num_rounds>> \in d_failed THEN ReturnNone
            ELSE extract_uci_move(AlphaFinal)

\* C11: in rounds 2-4 Alpha's prompt quotes Beta's statement of the previous
\* round and Beta's prompt quotes Alpha's statement of the same round; in
\* round 1 neither prompt holds a statement of the other persona.  The
\* prompt of round i is entry 2i of the persona's messages.
C11_PromptsQuoteOtherPersona ==
    /\ \A i \in 1..num_rounds : 2 * i <= Len(messages_alpha) =>
        /\ messages_alpha[2 * i].role = "user"
        /\ messages_alpha[2 * i].content =
                IF i = 1 THEN NoReview
                ELSE Quoted(debate_transcript[2 * (i - 1)].text)
        /\ i > 1 => /\ debate_transcript[2 * (i - 1)].round = i - 1
                    /\ debate_transcript[2 * (i - 1)].speaker = "Beta"
    /\ \A i \in 1..num_rounds : 2 * i <= Len(messages_beta) =>
        /\ messages_beta[2 * i].role = "user"
        /\ messages_beta[2 * i].content =
                IF i = 1 THEN NoReview
                ELSE Quoted(debate_transcript[2 * i - 1].text)
        /\ debate_transcript[2 * i - 1].round = i
        /\ debate_transcript[2 * i - 1].speaker = "Alpha"
    /\ \A k \in 1..Len(messages_alpha) :
            messages_alpha[k].role = "user" <=> (k % 2 = 0)
    /\ \A k \in 1..Len(messages_beta) :
            messages_beta[k].role = "user" <=> (k % 2 = 0)

\* C11 witness: Beta named a move in round 1 and none in round 2, Alpha the
\* reverse; each later prompt quotes the right one of the two.
C11_Witness ==
    /\ d_pc = "done"
    /\ debate_transcript[1].text = SayNoMove /\ debate_transcript[3].text = SayC2C4
    /\ debate_transcript[2].text = SayC2C4 /\ debate_transcript[4].text = SayNoMove
    /\ messages_alpha[2].content = NoReview /\ messages_beta[2].content = NoReview
    /\ messages_alpha[4].content = SayC2C4 /\ messages_alpha[6].content = SayNoMove
    /\ messages_beta[4].content = SayC2C4 /\ messages_beta[6].content = debate_transcript[5].text

----------------------------------------------------------------------------
(* Properties of _extract_uci_move (SpecExtract) *)

\* The whole-word tokens of 4 or 5 characters of a string: the pairs
\* <<i, j>> such that s[i..j] is made of word characters and is neither
\* preceded nor followed by one.
WholeWords(s) ==
    {ij \in {<<i, i + n>> : i \in 1..Len(s), n \in {3, 4}} :
        /\ ij[2] <= Len(s)
        /\ \A k \in ij[1]..ij[2] : IsWordChar(s[k])
        /\ ij[1] = 1 \/ ~IsWordChar(s[ij[1] - 1])
        /\ ij[2] = Len(s) \/ ~IsWordChar(s[ij[2] + 1])}

StrictTokens(s) == {ij \in WholeWords(s) : StrictMove(SubSeq(s, ij[1], ij[2]))}

LooseTokens(s) == {ij \in WholeWords(s) : LooseMove(SubSeq(s, ij[1], ij[2]))}

LastToken(s, tokens) ==
    LET ij == CHOOSE t \in tokens : \A u \in tokens : u[1] <= t[1]
    IN  SubSeq(s, ij[1], ij[2])

\* C12: the result is the last whole-word strict token if the text has one,
\* even when a loosely move-shaped token follows it; else the last
\* whole-word loosely move-shaped token; else, and for the empty text, None.
C12_TwoTierLastMatch ==
    x_pc \in {"extracted", "again"} =>
        x_result =
            IF StrictTokens(x_text) # {} THEN Return(LastToken(x_text, StrictTokens(x_text)))
            ELSE IF LooseTokens(x_text) # {} THEN Return(LastToken(x_text, LooseTokens(x_text)))
            ELSE ReturnNone

\* C12 witness: two strict tokens followed by a loosely move-shaped one;
\* the second strict token is returned.
C12_Witness ==
    /\ x_pc = "extracted"
    /\ x_text = <<"e","2","e","4"," ","d","7","d","8","'","Q","2","e","4">>
    /\ x_result = Return(<<"d","7","d","8">>)

\* C13: extracting from a move that extraction returned gives that move.
C13_ExtractionIdempotent ==
    x_pc = "again" => (x_result.kind = "return" /\ x_again = x_result)

\* C13 witness: a move of the loose tier, found before a later word that is
\* no move, is extracted again from itself.
C13_Witness ==
    /\ x_pc = "again"
    /\ x_text = <<"Q","2","e","4"," ","m","o","v","e">>
    /\ x_result = Return(<<"Q","2","e","4">>)
    /\ x_again = Return(<<"Q","2","e","4">>)

----------------------------------------------------------------------------
(* Properties of the scoring in run_experiment (SpecScore) *)

\* The score seen by the side that made the move: White's score as it is,
\* Black's with its sign changed.
MoverScore(k) == IF s_white THEN s_scores[k].v ELSE -s_scores[k].v

\* The opponent is mated, or will be: a forced win of the mover in n moves.
ForcedWin(k, n) == s_evals[k].type = "mate" /\ s_evals[k].value = -n

\* The opponent can force mate in n > 0 moves: a forced loss of the mover.
ForcedLoss(k, n) == s_evals[k].type = "mate" /\ s_evals[k].value = n /\ n > 0

Numeric(k) == s_evals[k].type = "cp"

Scored == 1..Len(s_scores)

\* C16: a numeric evaluation v, reported for the side to move next, scores
\* -v when White made the move and v when Black made it.
C16_NumericScoreFlipsForWhite ==
    \A k \in Scored : Numeric(k) =>
        s_scores[k] = Finite(IF s_white THEN -s_evals[k].value ELSE s_evals[k].value)

\* C16 witness: White moved and the reply side stands at -30: score +30.
C16_Witness ==
    /\ s_white /\ Len(s_scores) = 1
    /\ s_evals[1] = EvalDict("cp", -30)
    /\ s_scores[1] = Finite(30)

\* C17: with M = 100000, for the side that made the move a delivered mate
\* scores +M, a forced mate in N > 0 by the opponent scores -(M - N) and a
\* forced mate of the opponent in |N| scores +(M - |N|); on White's scale
\* the sign is kept for White's moves and reversed for Black's.
C17_MateScores ==
    \A k \in Scored : s_evals[k].type = "mate" =>
        LET n == s_evals[k].value
            for_mover == IF n = 0 THEN 100000
                         ELSE IF n > 0 THEN -(100000 - n)
                         ELSE 100000 - Abs(n)
        IN  /\ s_scores[k].inf = 0
            /\ s_scores[k].v = IF s_white THEN for_mover ELSE -for_mover

\* C17 witness: Black moved and White is being mated in 2: -99998.
C17_Witness ==
    /\ ~s_white /\ Len(s_scores) = 1
    /\ s_evals[1] = EvalDict("mate", -2)
    /\ s_scores[1] = Finite(-99998)

\* C18: for the side that made the move, of two outcomes of one position:
\* a win in N beats a win in N+1, a delivered mate beats every other
\* outcome, a forced win beats every numeric evaluation, every numeric
\* evaluation beats a forced loss, and a loss in N+1 beats a loss in N.
C18_ScoresMonotone ==
    Len(s_scores) = 2 =>
        /\ \A n \in 0..MaxMate : (ForcedWin(1, n) /\ ForcedWin(2, n + 1)) => MoverScore(1) > MoverScore(2)
        /\ (ForcedWin(1, 0) /\ s_evals[2] # s_evals[1]) => MoverScore(1) > MoverScore(2)
        /\ \A n \in 0..MaxMate : (ForcedWin(1, n) /\ Numeric(2)) => MoverScore(1) > MoverScore(2)
        /\ \A n \in 1..MaxMate : (ForcedLoss(1, n) /\ Numeric(2)) => MoverScore(1) < MoverScore(2)
        /\ \A n \in 1..MaxMate : (ForcedLoss(1, n) /\ ForcedLoss(2, n + 1)) => MoverScore(1) < MoverScore(2)

\* C18 witness: Black moved; a win in 1 is compared with a win in 2.
C18_Witness ==
    /\ ~s_white /\ Len(s_scores) = 2
    /\ ForcedWin(1, 1) /\ ForcedWin(2, 2)
    /\ MoverScore(1) = 99999 /\ MoverScore(2) = 99998

----------------------------------------------------------------------------
(* Properties of the position loop of run_experiment (SpecRun) *)

\* The protocol's move was evaluated by the oracle.
Evaluated(k) == r_evals[k] # NoEvalDict

\* The protocol's result is an error token or no move, or its move could
\* not be evaluated.
Unevaluable(k) ==
    \/ r_results[k].kind # "return"
    \/ IsErrorString(r_results[k].value)
    \/ r_evals[k] = NoEvalDict

\* The winning score of the position: the greatest score when White is to
\* move, the least otherwise.
WinningScore ==
    CHOOSE w \in Values(current_fen_agent_eval_scores) :
        \A t \in Values(current_fen_agent_eval_scores) :
            IF is_white_turn_for_fen THEN ~ScoreLess(w, t) ELSE ~ScoreLess(t, w)

\* C14: when the points of a position with at least one evaluated move are
\* awarded, exactly the protocols whose score equals the winning score gain
\* one point and the points of every other protocol stay as they are.
C14_WinnersGainOnePoint ==
    [][(r_pc = "award" /\ \E k \in Methods : Evaluated(k)) =>
        \A k \in Methods :
            total_score'[k] =
                IF current_fen_agent_eval_scores[k] = WinningScore
                THEN total_score[k] + 1 ELSE total_score[k]
      ]_vars

\* C14 witness: White to move, evaluations -30, -10 and +5 after the three
\* moves: scores +30, +10, -5, and the first protocol alone has a point.
C14_Witness ==
    /\ r_pc = "position" /\ r_pos = 2 /\ is_white_turn_for_fen
    /\ r_evals = <<EvalDict("cp", -30), EvalDict("cp", -10), EvalDict("cp", 5)>>
    /\ current_fen_agent_eval_scores = <<Finite(30), Finite(10), Finite(-5)>>
    /\ total_score = <<1, 0, 0>>

\* C15: when the points of a position are awarded, every protocol whose
\* result is an error token, no move or a move the oracle could not
\* evaluate holds the worst score (minus infinity with White to move, plus
\* infinity otherwise) and its points stay as they are; so if that is so
\* for all protocols, no points change.
C15_UnevaluableNeverGains ==
    [][r_pc = "award" =>
        \A k \in Methods : Unevaluable(k) =>
            /\ current_fen_agent_eval_scores[k] =
                    IF is_white_turn_for_fen THEN MinusInfinity ELSE PlusInfinity
            /\ total_score'[k] = total_score[k]
      ]_vars

\* C15 witness: White to move; the single agent returned an error string,
\* the manager the exhaustion error, and the debate's move leaves White
\* worse off (-5): only the debate has a point.
C15_Witness ==
    /\ r_pc = "position" /\ r_pos = 2 /\ is_white_turn_for_fen
    /\ Len(r_results) = 3
    /\ r_results[1] = Return(ErrorColon(<<"L","L","M">>))
    /\ r_results[3] = Return(ManagerExhausted)
    /\ current_fen_agent_eval_scores = <<MinusInfinity, Finite(-5), MinusInfinity>>
    /\ total_score = <<0, 1, 0>>

\* C19: an evaluation is requested only for results that are moves: never
\* for an error token and never when there is no move.
C19_NoEvaluationOfErrorTokens ==
    \A k \in eval_requests :
        /\ r_results[k].kind = "return"
        /\ ~IsErrorString(r_results[k].value)

\* C20: a run whose position loop has started is never cut short: when it
\* has ended, every position was processed and the summary was produced.
C20_RunNeverAborted ==
    r_pc \in {"done", "aborted"} => (r_summary /\ r_pos = NumPositions + 1)

----------------------------------------------------------------------------
(* Skipped positions *)

\* The step that skips a position: the head of the loop moves on to the
\* next position without running a protocol.
Skipped == r_pc = "position" /\ r_pos' = r_pos + 1

\* C21: a position that fails pre-validation (its FEN does not parse, or the
\* engine rejects it) is skipped: no protocol result is added, no evaluation
\* is requested or recorded, and no tally field of any protocol changes.
C21_SkippedPositionChangesNothing ==
    [][Skipped =>
        /\ UNCHANGED <<r_results, r_evals, current_fen_agent_eval_scores, eval_requests>>
        /\ UNCHANGED <<total_score, fens_processed_count, illegal_move_count>>]_vars

\* One position was processed and won by the single agent, another was
\* skipped, and the run reached its summary.
C21_Witness ==
    /\ r_pc = "summary"
    /\ fens_processed_count[1] > 0 /\ fens_processed_count[1] < NumPositions
    /\ total_score[1] > 0

----------------------------------------------------------------------------
(* The tallies of the summary *)

\* The step that runs protocol r_k on the position and gets a result back.
ProtocolReturned == r_pc = "method" /\ r_results'[r_k].kind # "raise"

\* The result just recorded for protocol k is an error token, no move, or a
\* move that the oracle could not evaluate.
MalformedProposal(k) ==
    \/ r_results'[k].kind = "none"
    \/ r_results'[k].kind = "return" /\ IsErrorString(r_results'[k].value)
    \/ r_evals'[k] = NoEvalDict

\* C22: the malformed count of a protocol grows by one on exactly the
\* processed positions where its proposal is malformed, an error or rejected
\* by the oracle, so that the count reported is the number of such positions.
C22_MalformedCountTracksProposals ==
    [][ProtocolReturned =>
        illegal_move_count'[r_k] =
            illegal_move_count[r_k] + (IF MalformedProposal(r_k) THEN 1 ELSE 0)]_vars

----------------------------------------------------------------------------
(* The shape of the moves returned *)

\* Exactly 4 or 5 alphanumeric characters.
FourOrFiveAlnum(m) == Len(m) \in {4, 5} /\ IsAlnum(m)

\* The value a protocol returned is a move and no error string.
NonErrorMove(result) == result.kind = "return" /\ ~IsErrorString(result.value)

\* C23: every non-error move returned by the single agent, the debate or
\* the manager is exactly 4 or 5 alphanumeric characters.
C23_MovesAreFourOrFiveAlnum ==
    \A result \in {a_result, final_move_uci, m_result} :
        NonErrorMove(result) => FourOrFiveAlnum(result.value)

\* The same statement for the single agent and the debate alone.
AgentAndDebateMovesAreFourOrFiveAlnum ==
    \A result \in {a_result, final_move_uci} :
        NonErrorMove(result) => FourOrFiveAlnum(result.value)

----------------------------------------------------------------------------
(* The order of protocols and evaluations within a position *)

----------------------------------------------------------------------------
(* Termination and resource bounds of decide_move *)

\* decide_move under the assumption that every request to the language
\* model is answered or fails, so that the call always takes its next step.
SpecManagerFair == SpecManager /\ WF_vars(NextManager)

\* The requests made so far to the advisory roles and to the manager.
RequestsMade == m_requests.advisory + m_requests.manager

\* C25: decide_move terminates.  Every step makes exactly one advisory or
\* manager request, and a call makes at most 2 advisory requests, at most
\* MAX_ITERATIONS manager requests and at most MAX_ITERATIONS verifier
\* requests; the verifier requests never exceed the manager requests made
\* so far.
C25_TerminatesWithinBounds ==
    /\ [][/\ RequestsMade' = RequestsMade + 1
          /\ m_requests'.advisory <= 2
          /\ m_requests'.manager <= MAX_ITERATIONS
          /\ m_requests'.verifier <= MAX_ITERATIONS
          /\ m_requests'.verifier <= m_requests'.manager]_vars
    /\ <>(m_pc = "done")

\* A call that used every request it may make: two reports, five manager
\* replies and five verifier judgments, and then ended.
C25_Witness ==
    /\ m_pc = "done"
    /\ m_requests.advisory = 2
    /\ m_requests.manager = MAX_ITERATIONS
    /\ m_requests.verifier = MAX_ITERATIONS

----------------------------------------------------------------------------
(* The flip rule of numeric evaluations, applied twice *)

\* C26: for every numeric evaluation v and both values of the flag, the
\* flip rule applied to the score it produced gives v back.
C26_FlipTwiceIsIdentity ==
    \A k \in Scored : Numeric(k) =>
        CpScore(s_white, s_scores[k].v) = s_evals[k].value

\* White moved, the evaluation 5 was scored -5, and the rule applied again
\* gives 5; the greatest value is scored as well.
C26_Witness ==
    /\ s_white /\ Len(s_scores) = 2
    /\ s_evals[1] = EvalDict("cp", 5) /\ s_scores[1] = Finite(-5)
    /\ CpScore(s_white, -5) = 5
    /\ s_evals[2] = EvalDict("cp", MaxCentipawns)

----------------------------------------------------------------------------
(* Plain-text replies and failed requests of the manager *)

\* The step of the loop whose manager request was answered in this way.
IterationWith(kind) == m_pc = "loop" /\ last_reply'.kind = kind

\* The iteration is used up: the loop goes on, or ends with the exhaustion
\* error after the last iteration; nothing is raised.
IterationConsumed ==
    /\ m_iter' = m_iter + 1
    /\ IF m_iter + 1 < MAX_ITERATIONS
       THEN m_pc' = "loop" /\ m_result' = m_result
       ELSE m_pc' = "done" /\ m_result' = Return(ManagerExhausted)

\* The history of a call in which each of the MAX_ITERATIONS iterations
\* appended the same entries.
RECURSIVE Repeated(_, _)
Repeated(entries, n) == IF n = 0 THEN <<>> ELSE entries \o Repeated(entries, n - 1)

HistoryOfRepeated(entries) == <<SystemPrompt, InitialPrompt>> \o Repeated(entries, MAX_ITERATIONS)

FiveTextReplies == HistoryOfRepeated(<<AssistantMessage(<<>>), Reminder>>)

FiveFailedRequests == HistoryOfRepeated(<<ApiErrorNotice>>)

\* C27: a plain-text reply of the manager is followed by a reminder in the
\* history and uses exactly one iteration, without a verifier request;
\* MAX_ITERATIONS plain-text replies in a row end with the exhaustion error
\* and no verifier request.
C27_TextReplyConsumesIteration ==
    /\ [][IterationWith("text") =>
            /\ manager_history' = manager_history \o <<AssistantMessage(<<>>), Reminder>>
            /\ m_requests'.verifier = m_requests.verifier
            /\ IterationConsumed]_vars
    /\ [](manager_history = FiveTextReplies =>
            /\ m_pc = "done" /\ m_result = Return(ManagerExhausted)
            /\ m_requests.manager = MAX_ITERATIONS /\ m_requests.verifier = 0)

\* Five plain-text replies in a row.
C27_Witness ==
    /\ manager_history = FiveTextReplies
    /\ last_reply.kind = "text"
    /\ m_result = Return(ManagerExhausted)

\* C28: a failed manager request does not end decide_move: an error notice
\* is appended to the history, exactly one iteration is used and nothing is
\* raised; MAX_ITERATIONS failed requests in a row end with the exhaustion
\* error, without a verifier request.
C28_FailedRequestConsumesIteration ==
    /\ [][IterationWith("api_error") =>
            /\ manager_history' = manager_history \o <<ApiErrorNotice>>
            /\ m_requests'.verifier = m_requests.verifier
            /\ IterationConsumed]_vars
    /\ [](manager_history = FiveFailedRequests =>
            /\ m_pc = "done" /\ m_result = Return(ManagerExhausted)
            /\ m_requests.manager = MAX_ITERATIONS /\ m_requests.verifier = 0)

\* Every manager request of the call failed.
C28_Witness ==
    /\ manager_history = FiveFailedRequests
    /\ last_reply.kind = "api_error"
    /\ m_result = Return(ManagerExhausted)

----------------------------------------------------------------------------
(* The count of positions attempted *)

\* C29: the count of positions attempted by a protocol grows by exactly one
\* each time the protocol is run on a position, whatever the outcome (a
\* move, an error token, no move, or an exception), and changes at no other
\* step; at the end of a run it is the number of positions on which the
\* protocol was invoked.
C29_AttemptedCountsEveryInvocation ==
    [][IF r_pc = "method"
       THEN fens_processed_count' =
                [fens_processed_count EXCEPT ![r_k] = fens_processed_count[r_k] + 1]
       ELSE fens_processed_count' = fens_processed_count]_vars

\* The same statement for the outcomes in which the protocol returns.
AttemptedCountsEveryReturn ==
    [][IF ProtocolReturned
       THEN fens_processed_count' =
                [fens_processed_count EXCEPT ![r_k] = fens_processed_count[r_k] + 1]
       ELSE fens_processed_count' = fens_processed_count]_vars

----------------------------------------------------------------------------
(* The manager's history *)

\* The history before the step is the beginning of the history after it.
HistoryExtended ==
    /\ Len(manager_history') >= Len(manager_history)
    /\ SubSeq(manager_history', 1, Len(manager_history)) = manager_history

\* C30: the manager's history is append-only and bounded.  It is created
\* with the system prompt and the initial prompt when the loop is entered,
\* no step removes or changes an entry, an iteration appends at most 2
\* entries, and the history never has more than 12 entries.
C30_HistoryAppendOnlyAndBounded ==
    /\ [][/\ HistoryExtended
          /\ IF m_pc = "loop"
             THEN Len(manager_history') <= Len(manager_history) + 2
             ELSE manager_history' \in {<<>>, <<SystemPrompt, InitialPrompt>>}]_vars
    /\ [](LoopEntered => SubSeq(manager_history, 1, 2) = <<SystemPrompt, InitialPrompt>>)
    /\ [](Len(manager_history) <= 12)

\* A call whose five iterations appended two entries each: the history has
\* reached its greatest length.
C30_Witness ==
    /\ m_pc = "done"
    /\ Len(manager_history) = 12
    /\ manager_history[12].role = "tool"

----------------------------------------------------------------------------
(* The awarding of points and the colour to move *)

\* The scores the position loop gives to the evaluations of the three
\* protocols when the side to move is the given colour.
ScoresFor(white_to_move, evals) ==
    [k \in 1..Len(evals) |->
        IF evals[k] # NoEvalDict THEN ScoreOfEvaluation(white_to_move, evals[k])
        ELSE SentinelScore(white_to_move)]

\* The protocols that the awarding gives a point to for these evaluations
\* when the side to move is the given colour.
GainersFor(white_to_move, evals) ==
    LET scores == ScoresFor(white_to_move, evals)
        best == BestScore(white_to_move, scores)
    IN  IF (\E k \in 1..Len(evals) : evals[k] # NoEvalDict) /\ best.inf = 0
        THEN {k \in 1..Len(evals) : AchievesBest(scores[k], best)}
        ELSE {}

\* The worth of an evaluation to the side that made the move, whatever its
\* colour: the evaluation is reported for the opponent.
WorthForMover(eval_dict) ==
    IF eval_dict.type = "cp" THEN -eval_dict.value
    ELSE IF eval_dict.value = 0 THEN MATE_VALUE_SCALE
    ELSE IF eval_dict.value > 0 THEN -MATE_VALUE_SCALE + eval_dict.value
    ELSE MATE_VALUE_SCALE + eval_dict.value

\* The protocols whose evaluated move is best for the side that made it.
BestForMover(evals) ==
    {k \in 1..Len(evals) :
        /\ evals[k] # NoEvalDict
        /\ \A j \in 1..Len(evals) :
              evals[j] # NoEvalDict => WorthForMover(evals[j]) <= WorthForMover(evals[k])}

\* The protocols that gain a point in the step.
Gainers == {k \in Methods : total_score'[k] = total_score[k] + 1}

\* C31: the protocols that gain a point for a position are the same when
\* White is to move as when Black is to move, for the same oracle outcomes:
\* they are the protocols whose outcome is best for the side that made the
\* move, and the points of the others stay as they are.
C31_GainersIndependentOfColour ==
    [][r_pc = "award" =>
        /\ Gainers = GainersFor(TRUE, r_evals)
        /\ Gainers = GainersFor(FALSE, r_evals)
        /\ Gainers = BestForMover(r_evals)
        /\ \A k \in Methods \ Gainers : total_score'[k] = total_score[k]]_vars

\* Black to move: the debate's move mates White at once and gains the
\* point, as it would with White to move and the same outcomes; the other
\* moves leave the opponent ahead by 5 and with a mate in 1.
C31_Witness ==
    /\ r_pc = "position" /\ r_pos = 2 /\ ~is_white_turn_for_fen
    /\ r_evals = <<EvalDict("cp", 5), EvalDict("mate", 0), EvalDict("mate", 1)>>
    /\ GainersFor(TRUE, r_evals) = {2}
    /\ total_score = <<0, 1, 0>>

----------------------------------------------------------------------------
(* Tool calls and their results in the manager's history *)

\* The entries after entry i that are the result of the tool call id.
ResultsOf(i, id) ==
    {n \in (i + 1)..Len(manager_history) :
        manager_history[n].role = "tool" /\ manager_history[n].tool_call_id = id}

\* Every tool call of the assistant entry i has exactly one result.
Answered(i) ==
    \A j \in 1..Len(manager_history[i].tool_calls) :
        Cardinality(ResultsOf(i, manager_history[i].tool_calls[j])) = 1

AssistantEntries == {i \in 1..Len(manager_history) : manager_history[i].role = "assistant"}

\* C32: before every manager request, every tool call of every assistant
\* entry of the history has exactly one tool-result entry with its id later
\* in the history, whatever the shape of the reply, replies with more than
\* one tool call included.
C32_EveryToolCallAnswered ==
    m_pc = "loop" => \A i \in AssistantEntries : Answered(i)

\* The same statement for the assistant entries that carry one tool call.
SingleToolCallsAnswered ==
    m_pc = "loop" =>
        \A i \in AssistantEntries : Len(manager_history[i].tool_calls) = 1 => Answered(i)

----------------------------------------------------------------------------
(* The test of the advisory reports *)

\* Both advisory requests have been made and both were answered.
BothAdvisoryRequestsSucceeded ==
    /\ m_pc \in {"loop", "done"}
    /\ ~RiskCallFailed /\ ~StrategyCallFailed

\* C33: if both advisory requests succeed, decide_move enters the manager
\* loop and makes at least one manager request, whatever the text of the
\* replies; it returns the error of the initial reports only when an
\* advisory request failed.
C33_SuccessfulReportsReachLoop ==
    BothAdvisoryRequestsSucceeded =>
        /\ LoopEntered
        /\ m_result # Return(InitialReportsFailed)
        /\ m_pc = "done" => m_requests.manager >= 1

\* The same statement for replies that have a text without "Error:" in it.
PlainReportsReachLoop ==
    (/\ BothAdvisoryRequestsSucceeded
     /\ \A report \in {risk_report, strategy_report} :
            IsStr(report) /\ ~Contains(report.s, <<"E","r","r","o","r",":">>)) =>
        /\ LoopEntered
        /\ m_result # Return(InitialReportsFailed)
        /\ m_pc = "done" => m_requests.manager >= 1

----------------------------------------------------------------------------
(* The tallies of a run *)

\* C34: at every point of a run no protocol has more points than positions
\* attempted; a step gives a protocol at most one point, and no tally field
\* of any protocol ever decreases.
C34_PointsWithinAttempts ==
    /\ [](\A k \in Methods : total_score[k] <= fens_processed_count[k])
    /\ [][\A k \in Methods :
            /\ total_score'[k] \in {total_score[k], total_score[k] + 1}
            /\ fens_processed_count'[k] >= fens_processed_count[k]
            /\ illegal_move_count'[k] >= illegal_move_count[k]]_vars

\* The single agent won every position it attempted, more than one; the
\* manager raised on one of them, so it attempted fewer and won none.
C34_Witness ==
    /\ r_pc = "summary"
    /\ total_score[1] > 1 /\ total_score[1] = fens_processed_count[1]
    /\ fens_processed_count[3] < fens_processed_count[1]
    /\ total_score[3] = 0

----------------------------------------------------------------------------
(* The legality judgments given to the manager *)

\* The entries of the history that are results of check_legality.
JudgmentEntries == {k \in 1..Len(manager_history) : manager_history[k].what = "judgment"}

\* The verifier's reply parsed as a JSON object whose is_legal is true.
RepliedLegal ==
    /\ last_verifier_reply.kind = "content" /\ last_verifier_reply.raw = "object"
    /\ last_verifier_reply.is_legal = PyTrue

\* C35: every legality judgment in the manager's history has a boolean
\* is_legal, whatever the verifier replied; the judgment just produced is
\* the one appended, and its is_legal is true only if the verifier's reply
\* parsed as a JSON object whose is_legal was the boolean true.
C35_JudgmentsAreBoolean ==
    /\ \A k \in JudgmentEntries : IsBool(manager_history[k].is_legal)
    /\ pa_feedback_json # NoJudgment =>
        /\ IsBool(pa_feedback_json.is_legal)
        /\ pa_feedback_json.is_legal = PyTrue => RepliedLegal
        /\ LoopEntered =>
            /\ Len(manager_history) \in JudgmentEntries
            /\ manager_history[Len(manager_history)].is_legal = pa_feedback_json.is_legal

\* The verifier answered "yes" instead of a boolean and the judgment in the
\* history says false, after an earlier judgment that said true.
C35_Witness ==
    /\ last_verifier_reply.is_legal = PyStr(<<"y","e","s">>)
    /\ pa_feedback_json.is_legal = PyFalse
    /\ Len(manager_history) \in JudgmentEntries
    /\ \E k \in JudgmentEntries : manager_history[k].is_legal = PyTrue

----------------------------------------------------------------------------
(* The private histories of the two personas *)

\* The turns a persona has taken so far.
TurnsOf(speaker) == {k \in 1..Len(d_requests) : d_requests[k][1] = speaker}

\* A private history after n turns of its persona: the system entry, then
\* for each turn the user prompt and the assistant statement of that round.
WellFormedHistory(messages, n) ==
    /\ Len(messages) = 1 + 2 * n
    /\ messages[1] = SystemEntry
    /\ \A i \in 1..n :
        /\ messages[2 * i].role = "user" /\ messages[2 * i].round = i
        /\ messages[2 * i + 1].role = "assistant" /\ messages[2 * i + 1].round = i

\* The history before the step is the beginning of the one after it, which
\* has two entries more.
TwoAppended(before, after) ==
    Len(after) = Len(before) + 2 /\ SubSeq(after, 1, Len(before)) = before

\* C36: each persona's private history is well formed: after i turns of the
\* persona it has 1 + 2i entries, the system entry and then user prompt and
\* assistant statement in turn, so both have 1 + 2i entries after round i;
\* the assistant entry of a turn holds the statement recorded for it, also
\* when the turn's request failed; Alpha's history changes only on Alpha's
\* turns and Beta's only on Beta's.
C36_PrivateHistoriesWellFormed ==
    /\ [](/\ WellFormedHistory(messages_alpha, Cardinality(TurnsOf("Alpha")))
          /\ WellFormedHistory(messages_beta, Cardinality(TurnsOf("Beta")))
          /\ d_pc \in {"alpha", "done"} =>
                LET i == IF d_pc = "done" THEN num_rounds ELSE d_round - 1
                IN  Len(messages_alpha) = 1 + 2 * i /\ Len(messages_beta) = 1 + 2 * i
          /\ \A i \in 1..num_rounds :
                /\ 2 * i - 1 <= Len(debate_transcript) =>
                        messages_alpha[2 * i + 1].content = debate_transcript[2 * i - 1].text
                /\ 2 * i <= Len(debate_transcript) =>
                        messages_beta[2 * i + 1].content = debate_transcript[2 * i].text)
    /\ [][/\ d_pc = "alpha" =>
                TwoAppended(messages_alpha, messages_alpha') /\ UNCHANGED messages_beta
          /\ d_pc = "beta" =>
                TwoAppended(messages_beta, messages_beta') /\ UNCHANGED messages_alpha]_vars

\* A finished debate in which Alpha's request of round 2 and Beta's request
\* of round 4 failed: both histories have 9 entries.
C36_Witness ==
    /\ d_pc = "done"
    /\ {<<"Alpha", 2>>, <<"Beta", 4>>} \subseteq d_failed
    /\ Len(messages_alpha) = 9 /\ Len(messages_beta) = 9
    /\ messages_alpha[5].role = "assistant"
    /\ messages_alpha[5].content = debate_transcript[3].text

============================================================================
